---- MODULE Spec2Model ----
(***************************************************************************)
(* A model of the 6502 decode/execute engine of jqphu/nes: Cpu::new, the   *)
(* dispatcher opcode::next, the instruction families' execute functions    *)
(* and the run loop Cpu::run.                                              *)
(*                                                                         *)
(* Rust integers keep their width.  An arithmetic overflow panics when the *)
(* crate is built with overflow checks (the dev and test profiles) and     *)
(* wraps otherwise (the release profile); the variable overflow_checks     *)
(* holds the profile of the build.  A panic ends the run: it is recorded   *)
(* in fault, together with the CPU state at the moment of the panic.       *)
(***************************************************************************)
EXTENDS Integers, Sequences, FiniteSets, TLC

VARIABLES
    program_counter,  \* Cpu.program_counter: u16
    stack,            \* Cpu.stack: Stack { stack_pointer: usize }
    status,           \* Cpu.status: ProcessorStatus
    a,                \* Cpu.a: u8
    x,                \* Cpu.x: u8
    y,                \* Cpu.y: u8
    memory,           \* Cpu.memory: [u8; 0x10000]
    cycles,           \* Cpu.cycles: u64
    prg,              \* the NesFile handed to Cpu::new (its description)
    operation,        \* the local `operation` of Cpu::run: the last decoded one
    trace,            \* the values the last info! line of Cpu::run was built from
    fault,            \* the panic that ended the run: its kind ("none" while
                      \* running), the opcode byte its message carries, and the
                      \* stage it happened in ("new", "next", "trace", "execute")
    executed,         \* number of instructions Cpu::run has executed so far
    overflow_checks,  \* build profile: TRUE = overflow panics, FALSE = wraps
    log_enabled,      \* whether the info level is enabled (RUST_LOG)
    call              \* the last direct call of a function of cpu.rs or
                      \* addressing_mode.rs (outside Cpu::run): its name, its
                      \* argument, its result and the addresses it accessed

vars == <<program_counter, stack, status, a, x, y, memory, cycles, prg,
          operation, trace, fault, executed, overflow_checks, log_enabled, call>>

---------------------------------------------------------------------------
(* Program constants. *)

\* cpu.rs:10  const MEMORY_SIZE_MAX: usize = 0xffff + 1
MEMORY_SIZE_MAX == 65536
\* cpu.rs:51
FIRST_16_KB_OF_ROM == 32768
\* cpu.rs:52
LAST_16_KB_OF_ROM == 49152
\* ines.rs:29
PRG_ROM_MULTIPLE == 16384
\* opcode/mod.rs:70
PAGE_SIZE == 256
\* cpu.rs:177 and cpu.rs:183: the base the stack pointer is an offset to
STACK_BASE == 4096

Byte == 0 .. 255
Address == 0 .. (MEMORY_SIZE_MAX - 1)

---------------------------------------------------------------------------
(* Bounds of the model. *)

\* The run loop is followed for at most MaxSteps iterations.
MaxSteps == 10

\* Direct calls of the methods of Stack are followed for MaxCalls calls, and
\* a sequence of pushes alone for MaxPushes pushes.
MaxCalls == 4
MaxPushes == 258

---------------------------------------------------------------------------
(* Integer helpers. *)

\* value & mask == mask for a one-bit mask
BitSet(value, mask) == (value \div mask) % 2 = 1

RECURSIVE BitAnd(_, _)
\* u8 & u8
BitAnd(p, q) ==
    IF p = 0 \/ q = 0 THEN 0
    ELSE (IF p % 2 = 1 /\ q % 2 = 1 THEN 1 ELSE 0) + 2 * BitAnd(p \div 2, q \div 2)

BoolToU8(b) == IF b THEN 1 ELSE 0

\* bytes_to_addr with the two bytes taken in the other order
bytes_to_addr_swapped(first, second) == first * 256 + second

\* opcode/mod.rs:75  bytes_to_addr(first, second) = (second << 8) | first
bytes_to_addr(first, second) == second * 256 + first

\* opcode/mod.rs:79  addr_to_bytes(addr) = (addr as u8, (addr >> 8) as u8)
addr_to_bytes(addr) == <<addr % 256, (addr \div 256) % 256>>

\* opcode/mod.rs:84
is_on_different_pages(src, dest) == (src \div PAGE_SIZE) # (dest \div PAGE_SIZE)

---------------------------------------------------------------------------
(* cpu.rs: ProcessorStatus, Stack, Cpu::new. *)

\* ProcessorStatus::new as #[derive(Default)] would give it: every flag clear
ProcessorStatusDefault ==
    [carry |-> FALSE, zero |-> FALSE, b_flag |-> FALSE, interrupt_disable |-> FALSE,
     overflow |-> FALSE, negative |-> FALSE, decimal |-> FALSE]

\* cpu.rs:129  ProcessorStatus::new
ProcessorStatusNew ==
    [carry |-> FALSE, zero |-> FALSE, b_flag |-> FALSE, interrupt_disable |-> TRUE,
     overflow |-> FALSE, negative |-> FALSE, decimal |-> FALSE]

\* ProcessorStatus::update_load with the mask of bit 6 for the negative flag
update_load_bit6(s, value) ==
    [s EXCEPT !.zero = (value = 0), !.negative = BitSet(value, 64)]

\* cpu.rs:141  ProcessorStatus::update_load
update_load(s, value) ==
    [s EXCEPT !.zero = (value = 0), !.negative = BitSet(value, 128)]

\* update_bit without its overflow line: update_load alone
update_bit_no_overflow(s, value) ==
    [s EXCEPT !.zero = (value = 0), !.negative = BitSet(value, 128)]

\* cpu.rs:146  ProcessorStatus::update_bit
update_bit(s, value) ==
    [update_load(s, value) EXCEPT !.overflow = BitSet(value, 64)]

\* From<&ProcessorStatus> for u8 without the reserved bit 5
StatusToU8NoReserved(src) ==
    BoolToU8(src.carry)
    + 2 * BoolToU8(src.zero)
    + 4 * BoolToU8(src.interrupt_disable)
    + 8 * BoolToU8(src.decimal)
    + 16 * BoolToU8(src.b_flag)
    + 64 * BoolToU8(src.overflow)
    + 128 * BoolToU8(src.negative)

\* From<&ProcessorStatus> for u8 with bit 4 set whatever b_flag is, the way
\* the hardware's PHP pushes the status
StatusToU8BreakSet(src) ==
    BoolToU8(src.carry)
    + 2 * BoolToU8(src.zero)
    + 4 * BoolToU8(src.interrupt_disable)
    + 8 * BoolToU8(src.decimal)
    + 16 * 1
    + 32 * 1
    + 64 * BoolToU8(src.overflow)
    + 128 * BoolToU8(src.negative)

\* cpu.rs:152  impl From<&ProcessorStatus> for u8
StatusToU8(src) ==
    BoolToU8(src.carry)
    + 2 * BoolToU8(src.zero)
    + 4 * BoolToU8(src.interrupt_disable)
    + 8 * BoolToU8(src.decimal)
    + 16 * BoolToU8(src.b_flag)
    + 32 * 1
    + 64 * BoolToU8(src.overflow)
    + 128 * BoolToU8(src.negative)

\* cpu.rs:175  Stack::new
StackNew == [stack_pointer |-> STACK_BASE + 253]

\* A value or a panic: what a Rust expression that may panic evaluates to.
Val(v) == [val |-> v, panic |-> "none"]
Fail(kind) == [val |-> 0, panic |-> kind]

\* u16 + u16: panics on overflow with overflow checks, wraps without
AddU16(p, q, oc) ==
    IF p + q >= 65536 /\ oc THEN Fail("overflow") ELSE Val((p + q) % 65536)

\* u16 - u16
SubU16(p, q, oc) ==
    IF p < q /\ oc THEN Fail("overflow") ELSE Val((p - q + 65536) % 65536)

\* u8 + u8
AddU8(p, q, oc) ==
    IF p + q >= 256 /\ oc THEN Fail("overflow") ELSE Val((p + q) % 256)

\* usize - usize.  Without overflow checks the difference wraps modulo 2^64:
\* a negative number n stands for the wrapped value 2^64 + n.
SubUsize(p, q, oc) ==
    IF p < q /\ oc THEN Fail("overflow") ELSE Val(p - q)

\* cpu.rs:182  Stack::as_stack_offset: (stack_pointer - 0x1000) as u8, on usize
as_stack_offset(s, oc) ==
    LET offset == SubUsize(s.stack_pointer, STACK_BASE, oc)
    IN  IF offset.panic # "none" THEN offset ELSE Val(offset.val % 256)

\* The outcome of a function that works on the CPU: the CPU as it leaves it,
\* and the panic that stopped it ("none" when it returned).
Ok(c) == [cpu |-> c, panic |-> "none"]
Panic(c, kind) == [cpu |-> c, panic |-> kind]

\* An array or Vec of bytes is a sequence: the byte at index i is its element
\* i + 1.
Read(mem, i) == mem[i + 1]
Write(mem, i, value) == [mem EXCEPT ![i + 1] = value]

\* [0; n], for the two sizes used
Zeroes16K == [i \in 1 .. 16384 |-> 0]
Zeroes64K == Zeroes16K \o Zeroes16K \o Zeroes16K \o Zeroes16K

\* <[u8]>::copy_from_slice on mem[lo .. hi]: panics unless the lengths agree
copy_from_slice(mem, lo, hi, src) ==
    IF hi - lo # Len(src) THEN Fail("length_mismatch")
    ELSE Val(SubSeq(mem, 1, lo) \o src \o SubSeq(mem, hi + 1, Len(mem)))

\* Cpu::new without the first of its two copies: the ROM is not mirrored
CpuNewNoMirror(prg_rom) ==
    LET cpu == [program_counter |-> 49152,
                stack |-> [stack_pointer |-> STACK_BASE + 253],
                status |-> [carry |-> FALSE, zero |-> FALSE, b_flag |-> FALSE,
                            interrupt_disable |-> TRUE, overflow |-> FALSE,
                            negative |-> FALSE, decimal |-> FALSE],
                a |-> 0, x |-> 0, y |-> 0,
                memory |-> Zeroes64K,
                cycles |-> 7]
        last == copy_from_slice(cpu.memory, LAST_16_KB_OF_ROM, MEMORY_SIZE_MAX, prg_rom)
    IN  IF last.panic # "none" THEN Panic(cpu, last.panic)
        ELSE Ok([cpu EXCEPT !.memory = last.val])

\* cpu.rs:59  Cpu::new
CpuNew(prg_rom) ==
    LET cpu == [program_counter |-> 49152,
                stack |-> StackNew,
                status |-> ProcessorStatusNew,
                a |-> 0, x |-> 0, y |-> 0,
                memory |-> Zeroes64K,
                cycles |-> 7]
        first == copy_from_slice(cpu.memory, FIRST_16_KB_OF_ROM, LAST_16_KB_OF_ROM, prg_rom)
        last == copy_from_slice(first.val, LAST_16_KB_OF_ROM, MEMORY_SIZE_MAX, prg_rom)
    IN  IF first.panic # "none" THEN Panic(cpu, first.panic)
        ELSE IF last.panic # "none" THEN Panic([cpu EXCEPT !.memory = first.val], last.panic)
        ELSE Ok([cpu EXCEPT !.memory = last.val])

---------------------------------------------------------------------------
(* The PRG ROM images the model runs: ines.rs hands Cpu::new a buffer of   *)
(* prg_rom_multiple_size * 16 KiB.  An image is described by the segments  *)
(* of bytes it holds; every other byte is 0.                                *)

Seg(offset, bytes) == <<offset, bytes>>
Image(size, segs) == [size |-> size, segs |-> segs]

\* ines.rs:51  Header::get_prg_rom_size
get_prg_rom_size(image) == image.size * PRG_ROM_MULTIPLE

RECURSIVE Place(_, _, _)
\* buf with `bytes` written from index `offset` on
Place(buf, offset, bytes) ==
    IF bytes = <<>> THEN buf
    ELSE Place(Write(buf, offset, Head(bytes)), offset + 1, Tail(bytes))

RECURSIVE PlaceAll(_, _)
PlaceAll(buf, segs) ==
    IF segs = <<>> THEN buf
    ELSE PlaceAll(Place(buf, Head(segs)[1], Head(segs)[2]), Tail(segs))

RECURSIVE ZeroVec(_)
\* vec![0; n * 16384]
ZeroVec(n) == IF n = 0 THEN <<>> ELSE Zeroes16K \o ZeroVec(n - 1)

\* ines.rs:73  the buffer NesFile::new reads: get_prg_rom_size() bytes
PrgRom(image) == PlaceAll(ZeroVec(get_prg_rom_size(image) \div 16384), image.segs)

\* One instruction at the entry point, for every opcode byte: the operand
\* bytes are $10 $02 (zero page $10, absolute $0210, branch offset +$10).
OpcodeImages == {Image(1, <<Seg(0, <<op, 16, 2>>)>>) : op \in Byte}

\* The opening of a test ROM: JMP $C5F5; LDX #$00; STX $00; STX $10; STX $11;
\* JSR $C72D; NOP; SEC; BCS $C735; ... NOP; CLC; BCS; NOP
OpeningImage ==
    Image(1, <<Seg(0, <<76, 245, 197>>),
               Seg(1525, <<162, 0, 134, 0, 134, 16, 134, 17, 32, 45, 199>>),
               Seg(1837, <<234, 56, 176, 4>>),
               Seg(1845, <<234, 24, 176, 3, 234>>)>>)

\* JMP to one of the last three bytes of the address space, where `tail`
\* ends the image (and so the address space).
TopImage(target, tail) ==
    Image(1, <<Seg(0, <<76, target % 256, target \div 256>>),
               Seg(16384 - Len(tail), tail)>>)

TopImages ==
    {TopImage(65535, <<b>>) : b \in {56, 234, 0, 144, 96, 169, 72}}
    \cup {TopImage(65534, t) : t \in {<<234, 234>>, <<24, 24>>, <<169, 128>>, <<0, 0>>}}
    \cup {TopImage(65533, t) : t \in {<<234, 234, 234>>, <<32, 0, 192>>, <<173, 16, 2>>}}

\* LDA #$FF; STA $10FE; STA $10FF; RTS: a return to $FFFF + 1
ReturnToTopImage == Image(1, <<Seg(0, <<169, 255, 141, 254, 16, 141, 255, 16, 96>>)>>)

\* JMP $FFF0; BCC +$7F (carry is clear): a taken branch past $FFFF
BranchPastTopImage == Image(1, <<Seg(0, <<76, 240, 255>>), Seg(16368, <<144, 127>>)>>)

\* JSR $C010; NOP ... and RTS at $C010
CallReturnImage == Image(1, <<Seg(0, <<32, 16, 192, 234>>), Seg(16, <<96>>)>>)

\* LDX #$02; LDY #$81; LDA #$C0; STA $FF,X; STX $0210; LDA $0210; BIT $01;
\* LDA $01FF,X
IndexedImage ==
    Image(1, <<Seg(0, <<162, 2, 160, 129, 169, 192, 149, 255, 142, 16, 2,
                        173, 16, 2, 36, 1, 189, 255, 1>>)>>)

\* LDX #$01; LDA #$80; STA $21; LDY $20,X; LDA $C000,X; LDX $C000,Y: loads
\* of a negative and of a positive byte out of memory
LoadImage ==
    Image(1, <<Seg(0, <<162, 1, 169, 128, 133, 33, 180, 32, 189, 0, 192, 190, 0, 192>>)>>)

\* LDY #$01; LDA $C0FF,Y: the operand address plus Y is in the next page,
\* the operand address plus X is not
PageCrossImage == Image(1, <<Seg(0, <<160, 1, 185, 255, 192>>)>>)

\* LDX #$05; STX $10
StoreImage == Image(1, <<Seg(0, <<162, 5, 134, 16>>)>>)

\* BNE $FE (zero is clear): a branch to itself
BackwardBranchImage == Image(1, <<Seg(0, <<208, 254>>)>>)

\* JMP $C0F0; BCC +$20 (carry is clear): a taken branch from page $C0 into
\* page $C1
BranchCrossImage == Image(1, <<Seg(0, <<76, 240, 192>>), Seg(240, <<144, 32>>)>>)

\* LDA #$C0; STA $10; BIT $10; LDA #$80; BIT $0010: bit tests whose result
\* is 0xC0 and 0x80
BitImage == Image(1, <<Seg(0, <<169, 192, 133, 16, 36, 16, 169, 128, 44, 16, 0>>)>>)

\* A buffer of two or three 16 KiB units (ines.rs:52)
LargeImages == {Image(2, <<Seg(0, <<234>>), Seg(16384, <<234>>)>>), Image(3, <<>>)}

Images ==
    OpcodeImages \cup TopImages \cup LargeImages
    \cup {OpeningImage, ReturnToTopImage, BranchPastTopImage, CallReturnImage,
          IndexedImage, LoadImage, PageCrossImage, StoreImage,
          BackwardBranchImage, BranchCrossImage, BitImage}

---------------------------------------------------------------------------
(* opcode/addressing_mode.rs: AddressMode.                                 *)
(* A mode is [kind, register, value]: value is the Immediate value, the    *)
(* ZeroPage offset, the Absolute address or the Indirect                   *)
(* address_to_read_indirect; register is "None", "X" or "Y".  The kind    *)
(* "RelativeValue" holds the relative_value: u8 of a branch struct of      *)
(* branch.rs, which is no AddressMode.                                     *)

Mode(kind, register, value) == [kind |-> kind, register |-> register, value |-> value]
NoMode == Mode("None", "None", 0)

\* addressing_mode.rs:54  AddressMode::to_addr.  Some(addr) is Val(addr);
\* None is the value "no_address", which the callers' unwrap() panics on.
to_addr(mode, c, oc) ==
    CASE mode.kind = "Relative" ->
            \* (pc as i64 + offset as i64) as u16, the offset an i8
            Val((c.program_counter + mode.value + 65536) % 65536)
      [] mode.kind = "ZeroPage" ->
            \* (cpu.x + *offset) as u16: the sum is a u8
            IF mode.register = "None" THEN Val(mode.value)
            ELSE IF mode.register = "X" THEN AddU8(c.x, mode.value, oc)
            ELSE AddU8(c.y, mode.value, oc)
      [] mode.kind = "Absolute" ->
            \* (cpu.x as u16 + *address) as u16
            IF mode.register = "None" THEN Val(mode.value)
            ELSE IF mode.register = "X" THEN AddU16(c.x, mode.value, oc)
            ELSE AddU16(c.y, mode.value, oc)
      [] mode.kind = "Indirect" -> Fail("unsupported")
      [] OTHER -> Fail("no_address")

\* addressing_mode.rs:83  AddressMode::to_value
to_value(mode, c, oc) ==
    CASE mode.kind = "Accumulate" -> Val(c.a)
      [] mode.kind = "Immediate" -> Val(mode.value)
      [] OTHER ->
            LET addr == to_addr(mode, c, oc)
            IN  IF addr.panic # "none" THEN addr ELSE Val(Read(c.memory, addr.val))

\* addressing_mode.rs:92  AddressMode::to_string: the panic it may end in
\* (the string itself is not modelled)
to_string_panic(mode, c, oc) ==
    IF mode.kind \in {"Accumulate", "Immediate"} THEN "none"
    ELSE to_addr(mode, c, oc).panic

\* addressing_mode.rs:120  AddressMode::value_to_string: the panic it may end in
value_to_string_panic(mode) ==
    IF mode.kind \in {"Accumulate", "Relative", "Immediate", "ZeroPage", "Absolute"}
    THEN "none" ELSE "unsupported"

---------------------------------------------------------------------------
(* What a family's `new` returns: Some(operation), None, or a panic.  An   *)
(* operation is [family, opcode, mode, register]: register is the Load or  *)
(* Store register, the Flag variant, the branch struct or the Push/Pull    *)
(* Data.                                                                   *)

Operation(family, opcode, mode, register) ==
    [family |-> family, opcode |-> opcode, mode |-> mode, register |-> register]
NoOperation == Operation("None", 0, NoMode, "None")

Some(op) == [matched |-> TRUE, op |-> op, panic |-> "none"]
None == [matched |-> FALSE, op |-> NoOperation, panic |-> "none"]
NewPanic(kind) == [matched |-> FALSE, op |-> NoOperation, panic |-> kind]

\* cpu.memory[i] with i: usize: an index past the array panics
InBounds(i) == 0 <= i /\ i < MEMORY_SIZE_MAX
Index(c, i) ==
    IF InBounds(i) THEN Val(Read(c.memory, i)) ELSE Fail("index_out_of_bounds")

\* The branch OPCODEs with Bvs::OPCODE mistyped 0x78, the opcode of SEI
BranchNameBvs78(opcode) ==
    CASE opcode = 176 -> "Bcs"
      [] opcode = 144 -> "Bcc"
      [] opcode = 120 -> "Bvs"
      [] opcode = 80 -> "Bvc"
      [] opcode = 240 -> "Beq"
      [] opcode = 208 -> "Bne"
      [] opcode = 16 -> "Bpl"
      [] OTHER -> "None"

\* branch.rs:11,50,88,126,164,202,240: the OPCODE of each branch struct
BranchName(opcode) ==
    CASE opcode = 176 -> "Bcs"
      [] opcode = 144 -> "Bcc"
      [] opcode = 112 -> "Bvs"
      [] opcode = 80 -> "Bvc"
      [] opcode = 240 -> "Beq"
      [] opcode = 208 -> "Bne"
      [] opcode = 16 -> "Bpl"
      [] OTHER -> "None"

\* branch.rs:13  Bcs::new .. Bpl::new, chosen by OPCODE as opcode.rs:29-36 does:
\* relative_value = cpu.memory[(cpu.program_counter + 1) as usize], a u16 sum
BranchNew(opcode, c, oc) ==
    IF BranchName(opcode) = "None" THEN None
    ELSE LET at == AddU16(c.program_counter, 1, oc)
         IN  IF at.panic # "none" THEN NewPanic(at.panic)
             ELSE Some(Operation("Branch", opcode,
                                 Mode("RelativeValue", "None", Read(c.memory, at.val)),
                                 BranchName(opcode)))

\* flag.rs:34  Flag::new
FlagName(opcode) ==
    CASE opcode = 24 -> "Clc"
      [] opcode = 56 -> "Sec"
      [] opcode = 88 -> "Cli"
      [] opcode = 120 -> "Sei"
      [] opcode = 184 -> "Clv"
      [] opcode = 216 -> "Cld"
      [] opcode = 248 -> "Sed"
      [] OTHER -> "None"

FlagNew(opcode) ==
    IF FlagName(opcode) = "None" THEN None
    ELSE Some(Operation("Flag", opcode, NoMode, FlagName(opcode)))

\* The operand reads of a get_mode: value = memory[pc + 1], and for the three
\* byte modes memory[pc + 2], with pc: usize.  kind and register are the mode's.
ModeFromOperands(kind, register, c) ==
    LET pc == c.program_counter
        value == Index(c, pc + 1)
        second == Index(c, pc + 2)
    IN  IF value.panic # "none" THEN value
        ELSE IF kind \in {"Immediate", "ZeroPage"} THEN Val(Mode(kind, register, value.val))
        ELSE IF second.panic # "none" THEN second
        ELSE Val(Mode(kind, register, bytes_to_addr(value.val, second.val)))

\* load.rs:28  Load::get_register
LoadGetRegister(opcode) ==
    CASE opcode \in {169, 165, 181, 173, 189, 185, 161, 177} -> "A"
      [] opcode \in {162, 166, 182, 174, 190} -> "X"
      [] opcode \in {160, 164, 180, 172, 188} -> "Y"
      [] OTHER -> "None"

\* load.rs:38  Load::get_mode
LoadGetMode(opcode, c) ==
    CASE opcode \in {169, 162, 160} -> ModeFromOperands("Immediate", "None", c)
      [] opcode \in {165, 166, 164} -> ModeFromOperands("ZeroPage", "None", c)
      [] opcode \in {181, 180} -> ModeFromOperands("ZeroPage", "X", c)
      [] opcode \in {182} -> ModeFromOperands("ZeroPage", "Y", c)
      [] opcode \in {173, 174, 172} -> ModeFromOperands("Absolute", "None", c)
      [] opcode \in {189, 188} -> ModeFromOperands("Absolute", "X", c)
      [] opcode \in {185, 190} -> ModeFromOperands("Absolute", "X", c)
      [] opcode \in {161} -> ModeFromOperands("Indirect", "X", c)
      [] opcode \in {177} -> ModeFromOperands("Indirect", "Y", c)
      [] OTHER -> Fail("unexpected_opcode")

\* load.rs:18  Load::new
LoadNew(opcode, c) ==
    IF LoadGetRegister(opcode) = "None" THEN None
    ELSE LET mode == LoadGetMode(opcode, c)
         IN  IF mode.panic # "none" THEN NewPanic(mode.panic)
             ELSE Some(Operation("Load", opcode, mode.val, LoadGetRegister(opcode)))

\* store.rs:28  Store::get_register
StoreGetRegister(opcode) ==
    CASE opcode \in {133, 149, 141, 157, 153, 129, 145} -> "A"
      [] opcode \in {134, 150, 142} -> "X"
      [] opcode \in {132, 148, 140} -> "Y"
      [] OTHER -> "None"

\* store.rs:38  Store::get_mode
StoreGetMode(opcode, c) ==
    CASE opcode \in {133, 134, 132} -> ModeFromOperands("ZeroPage", "None", c)
      [] opcode \in {149, 148} -> ModeFromOperands("ZeroPage", "X", c)
      [] opcode \in {150} -> ModeFromOperands("ZeroPage", "Y", c)
      [] opcode \in {141, 142, 140} -> ModeFromOperands("Absolute", "None", c)
      [] opcode \in {157} -> ModeFromOperands("Absolute", "X", c)
      [] opcode \in {153} -> ModeFromOperands("Absolute", "X", c)
      [] opcode \in {129} -> ModeFromOperands("Indirect", "X", c)
      [] opcode \in {145} -> ModeFromOperands("Indirect", "Y", c)
      [] OTHER -> Fail("unexpected_opcode")

\* store.rs:18  Store::new
StoreNew(opcode, c) ==
    IF StoreGetRegister(opcode) = "None" THEN None
    ELSE LET mode == StoreGetMode(opcode, c)
         IN  IF mode.panic # "none" THEN NewPanic(mode.panic)
             ELSE Some(Operation("Store", opcode, mode.val, StoreGetRegister(opcode)))

\* jump.rs:13  Jmp::new: the address is read before the opcode is matched
JmpNew(opcode, c) ==
    LET address == ModeFromOperands("Absolute", "None", c)
    IN  IF address.panic # "none" THEN NewPanic(address.panic)
        ELSE IF opcode = 76 THEN Some(Operation("Jmp", opcode, address.val, "None"))
        ELSE IF opcode = 108
             THEN Some(Operation("Jmp", opcode,
                                 Mode("Indirect", "None", address.val.value), "None"))
        ELSE None

\* jump.rs:79  Jsr::new
JsrNew(opcode, c) ==
    IF opcode # 32 THEN None
    ELSE LET address == ModeFromOperands("Absolute", "None", c)
         IN  IF address.panic # "none" THEN NewPanic(address.panic)
             ELSE Some(Operation("Jsr", opcode, address.val, "None"))

\* jump.rs:126  Rts::new
RtsNew(opcode) ==
    IF opcode # 96 THEN None ELSE Some(Operation("Rts", opcode, NoMode, "None"))

\* mod.rs:112  Nop::new
NopNew(opcode) ==
    IF opcode # 234 THEN None ELSE Some(Operation("Nop", opcode, NoMode, "None"))

\* mod.rs:143  Bit::new: memory[pc + 1] is read before the opcode is matched
BitNew(opcode, c) ==
    LET value == Index(c, c.program_counter + 1)
    IN  IF value.panic # "none" THEN NewPanic(value.panic)
        ELSE IF opcode = 36 THEN Some(Operation("Bit", opcode,
                                                Mode("ZeroPage", "None", value.val), "None"))
        ELSE IF opcode = 44
             THEN LET address == ModeFromOperands("Absolute", "None", c)
                  IN  IF address.panic # "none" THEN NewPanic(address.panic)
                      ELSE Some(Operation("Bit", opcode, address.val, "None"))
        ELSE None

\* push_pull.rs:31  Push::new
PushNew(opcode) ==
    CASE opcode = 72 -> Some(Operation("Push", opcode, NoMode, "Accumulator"))
      [] opcode = 8 -> Some(Operation("Push", opcode, NoMode, "ProcessorStatus"))
      [] OTHER -> None

\* push_pull.rs:79  Pull::new
PullNew(opcode) ==
    CASE opcode = 104 -> Some(Operation("Pull", opcode, NoMode, "Accumulator"))
      [] opcode = 40 -> Some(Operation("Pull", opcode, NoMode, "ProcessorStatus"))
      [] OTHER -> None

\* r, or `rest` when r is None: one `if let Some(..) = ..::new(..)` of next
OrElse(r, rest) == IF r.matched \/ r.panic # "none" THEN r ELSE rest

\* The `new` of a family, as next calls it (mod.rs:29-63)
FamilyNew(family, opcode, c, oc) ==
    CASE family = "Branch" -> BranchNew(opcode, c, oc)
      [] family = "Flag" -> FlagNew(opcode)
      [] family = "Load" -> LoadNew(opcode, c)
      [] family = "Store" -> StoreNew(opcode, c)
      [] family = "Jmp" -> JmpNew(opcode, c)
      [] family = "Jsr" -> JsrNew(opcode, c)
      [] family = "Rts" -> RtsNew(opcode)
      [] family = "Nop" -> NopNew(opcode)
      [] family = "Bit" -> BitNew(opcode, c)
      [] family = "Push" -> PushNew(opcode)
      [] family = "Pull" -> PullNew(opcode)

\* mod.rs:29-63: the families next tries, in its order.  Push and Pull are
\* not among them: mod.rs declares no push_pull module.
DispatchOrder == <<"Branch", "Flag", "Load", "Store", "Jmp", "Jsr", "Rts", "Nop", "Bit">>

RECURSIVE TryEach(_, _, _, _)
\* The chain of `if let Some(..) = ..::new(..) { return .. }` over `order`,
\* ending in mod.rs:66  panic!("Unexpected opcode {:02X}", opcode)
TryEach(order, opcode, c, oc) ==
    IF order = <<>> THEN NewPanic("unexpected_opcode")
    ELSE OrElse(FamilyNew(Head(order), opcode, c, oc),
                TryEach(Tail(order), opcode, c, oc))

\* mod.rs:26  next
next(c, oc) == TryEach(DispatchOrder, Read(c.memory, c.program_counter), c, oc)

---------------------------------------------------------------------------
(* The Operation implementations: execute, and the panic dump may end in.  *)
(* A panic leaves the CPU as the statements before it have made it.        *)

\* branch.rs:26,64,102,140,178,216,254: the condition of each branch struct
BranchCondition(name, s) ==
    CASE name = "Bcs" -> s.carry
      [] name = "Bcc" -> ~s.carry
      [] name = "Bvs" -> s.overflow
      [] name = "Bvc" -> ~s.overflow
      [] name = "Beq" -> s.zero
      [] name = "Bne" -> ~s.zero
      [] name = "Bpl" -> ~s.negative

\* branch.rs:21  Bcs::execute .. Bpl::execute
BranchExecute(op, c, oc) ==
    LET advanced == AddU16(c.program_counter, 2, oc)
        c1 == [c EXCEPT !.program_counter = advanced.val, !.cycles = @ + 2]
        target == AddU16(c1.program_counter, op.mode.value, oc)
    IN  IF advanced.panic # "none" THEN Panic(c, advanced.panic)
        ELSE IF ~BranchCondition(op.register, c1.status) THEN Ok(c1)
        ELSE IF target.panic # "none" THEN Panic(c1, target.panic)
        ELSE Ok([c1 EXCEPT !.program_counter = target.val, !.cycles = @ + 1])

\* branch.rs:33  dump: cpu.program_counter + self.relative_value as u16 + 2
BranchDump(op, c, oc) ==
    IF c.program_counter + op.mode.value + 2 >= 65536 /\ oc THEN "overflow" ELSE "none"

\* The match of Flag::execute with the Sei arm a copy of the Cli arm
FlagApplySeiClears(name, s) ==
    CASE name = "Clc" -> [s EXCEPT !.carry = FALSE]
      [] name = "Sec" -> [s EXCEPT !.carry = TRUE]
      [] name = "Cli" -> [s EXCEPT !.interrupt_disable = FALSE]
      [] name = "Sei" -> [s EXCEPT !.interrupt_disable = FALSE]
      [] name = "Clv" -> [s EXCEPT !.overflow = FALSE]
      [] name = "Cld" -> [s EXCEPT !.decimal = FALSE]
      [] name = "Sed" -> [s EXCEPT !.decimal = TRUE]

\* flag.rs:81  the flag each variant writes
FlagApply(name, s) ==
    CASE name = "Clc" -> [s EXCEPT !.carry = FALSE]
      [] name = "Sec" -> [s EXCEPT !.carry = TRUE]
      [] name = "Cli" -> [s EXCEPT !.interrupt_disable = FALSE]
      [] name = "Sei" -> [s EXCEPT !.interrupt_disable = TRUE]
      [] name = "Clv" -> [s EXCEPT !.overflow = FALSE]
      [] name = "Cld" -> [s EXCEPT !.decimal = FALSE]
      [] name = "Sed" -> [s EXCEPT !.decimal = TRUE]

\* flag.rs:77  Flag::execute
FlagExecute(op, c, oc) ==
    LET advanced == AddU16(c.program_counter, 1, oc)
    IN  IF advanced.panic # "none" THEN Panic(c, advanced.panic)
        ELSE Ok([c EXCEPT !.program_counter = advanced.val,
                          !.cycles = @ + 2,
                          !.status = FlagApply(op.register, @)])

\* Load::get_bytes with the Absolute arm returning 2
LoadGetBytesShort(op) ==
    CASE op.mode.kind = "Immediate" -> Val(2)
      [] op.mode.kind = "ZeroPage" -> Val(2)
      [] op.mode.kind = "Absolute" -> Val(2)
      [] op.mode.kind = "Indirect" -> Val(2)
      [] OTHER -> Fail("unexpected")

\* load.rs:111  Load::get_bytes
LoadGetBytes(op) ==
    CASE op.mode.kind = "Immediate" -> Val(2)
      [] op.mode.kind = "ZeroPage" -> Val(2)
      [] op.mode.kind = "Absolute" -> Val(3)
      [] op.mode.kind = "Indirect" -> Val(2)
      [] OTHER -> Fail("unexpected")

\* 4 or 5 + is_on_different_pages(address, address + index) as u64
PageCrossCycles(base, address, index, oc) ==
    LET sum == AddU16(address, index, oc)
    IN  IF sum.panic # "none" THEN sum
        ELSE Val(base + BoolToU8(is_on_different_pages(address, sum.val)))

\* load.rs:80  Load::get_cycles
LoadGetCycles(op, c, oc) ==
    CASE op.mode.kind = "Immediate" -> Val(2)
      [] op.mode.kind = "ZeroPage" /\ op.mode.register = "None" -> Val(3)
      [] op.mode.kind = "ZeroPage" /\ op.mode.register # "None" -> Val(4)
      [] op.mode.kind = "Absolute" /\ op.mode.register = "None" -> Val(4)
      [] op.mode.kind = "Absolute" /\ op.mode.register # "None" ->
            PageCrossCycles(4, op.mode.value, c.x, oc)
      [] op.mode.kind = "Indirect" /\ op.mode.register = "X" -> Val(6)
      [] op.mode.kind = "Indirect" /\ op.mode.register = "Y" ->
            PageCrossCycles(5, op.mode.value, c.y, oc)
      [] OTHER -> Fail("unexpected")

\* load.rs:138  the register the value goes to
LoadInto(register, c, value) ==
    CASE register = "X" -> [c EXCEPT !.x = value]
      [] register = "Y" -> [c EXCEPT !.y = value]
      [] register = "A" -> [c EXCEPT !.a = value]

\* load.rs:133  Load::execute
LoadExecute(op, c, oc) ==
    LET bytes == LoadGetBytes(op)
        advanced == AddU16(c.program_counter, bytes.val, oc)
        c1 == [c EXCEPT !.program_counter = advanced.val]
        cost == LoadGetCycles(op, c1, oc)
        c2 == [c1 EXCEPT !.cycles = @ + cost.val]
        value == to_value(op.mode, c2, oc)
        c3 == LoadInto(op.register, c2, value.val)
    IN  IF bytes.panic # "none" THEN Panic(c, bytes.panic)
        ELSE IF advanced.panic # "none" THEN Panic(c, advanced.panic)
        ELSE IF cost.panic # "none" THEN Panic(c1, cost.panic)
        ELSE IF value.panic # "none" THEN Panic(c2, value.panic)
        ELSE Ok([c3 EXCEPT !.status = update_load(@, value.val)])

\* store.rs:105  Store::get_bytes
StoreGetBytes(op) ==
    CASE op.mode.kind = "ZeroPage" -> Val(2)
      [] op.mode.kind = "Absolute" -> Val(3)
      [] op.mode.kind = "Indirect" -> Val(2)
      [] OTHER -> Fail("unexpected")

\* Store::get_cycles with the indexed Absolute arm returning 4, the base
\* cost of the load
StoreGetCyclesAsLoad(op) ==
    CASE op.mode.kind = "ZeroPage" /\ op.mode.register = "None" -> Val(3)
      [] op.mode.kind = "ZeroPage" /\ op.mode.register # "None" -> Val(4)
      [] op.mode.kind = "Absolute" -> Val(4)
      [] op.mode.kind = "Indirect" -> Val(6)
      [] OTHER -> Fail("unexpected")

\* store.rs:79  Store::get_cycles
StoreGetCycles(op) ==
    CASE op.mode.kind = "ZeroPage" /\ op.mode.register = "None" -> Val(3)
      [] op.mode.kind = "ZeroPage" /\ op.mode.register # "None" -> Val(4)
      [] op.mode.kind = "Absolute" /\ op.mode.register = "None" -> Val(4)
      [] op.mode.kind = "Absolute" /\ op.mode.register # "None" -> Val(5)
      [] op.mode.kind = "Indirect" -> Val(6)
      [] OTHER -> Fail("unexpected")

\* The match of Store::execute with every arm reading cpu.a
StoreFromA(register, c) == c.a

\* store.rs:131  the register the value comes from
StoreFrom(register, c) ==
    CASE register = "X" -> c.x
      [] register = "Y" -> c.y
      [] register = "A" -> c.a

\* Store::execute ending, as Load::execute does, in status.update_load(value)
StoreExecuteUpdatesFlags(op, c, oc) ==
    LET bytes == StoreGetBytes(op)
        advanced == AddU16(c.program_counter, bytes.val, oc)
        c1 == [c EXCEPT !.program_counter = advanced.val]
        cost == StoreGetCycles(op)
        c2 == [c1 EXCEPT !.cycles = @ + cost.val]
        addr == to_addr(op.mode, c2, oc)
        value == StoreFrom(op.register, c2)
    IN  IF bytes.panic # "none" THEN Panic(c, bytes.panic)
        ELSE IF advanced.panic # "none" THEN Panic(c, advanced.panic)
        ELSE IF cost.panic # "none" THEN Panic(c1, cost.panic)
        ELSE IF addr.panic # "none" THEN Panic(c2, addr.panic)
        ELSE Ok([c2 EXCEPT !.memory = Write(@, addr.val, value),
                           !.status = update_load(@, value)])

\* store.rs:126  Store::execute
StoreExecute(op, c, oc) ==
    LET bytes == StoreGetBytes(op)
        advanced == AddU16(c.program_counter, bytes.val, oc)
        c1 == [c EXCEPT !.program_counter = advanced.val]
        cost == StoreGetCycles(op)
        c2 == [c1 EXCEPT !.cycles = @ + cost.val]
        addr == to_addr(op.mode, c2, oc)
    IN  IF bytes.panic # "none" THEN Panic(c, bytes.panic)
        ELSE IF advanced.panic # "none" THEN Panic(c, advanced.panic)
        ELSE IF cost.panic # "none" THEN Panic(c1, cost.panic)
        ELSE IF addr.panic # "none" THEN Panic(c2, addr.panic)
        ELSE Ok([c2 EXCEPT !.memory = Write(@, addr.val, StoreFrom(op.register, c2))])

\* jump.rs:37  Jmp::get_cycles
JmpGetCycles(op) ==
    CASE op.mode.kind = "Absolute" -> Val(3)
      [] op.mode.kind = "Indirect" -> Val(5)
      [] OTHER -> Fail("unexpected")

\* jump.rs:54  Jmp::execute
JmpExecute(op, c, oc) ==
    LET addr == to_addr(op.mode, c, oc)
        c1 == [c EXCEPT !.program_counter = addr.val]
        cost == JmpGetCycles(op)
    IN  IF addr.panic # "none" THEN Panic(c, addr.panic)
        ELSE IF cost.panic # "none" THEN Panic(c1, cost.panic)
        ELSE Ok([c1 EXCEPT !.cycles = @ + cost.val])

\* Stack::push_addr storing pcl above pch: the low byte first
push_addr_low_first(c, addr, oc) ==
    LET sp == c.stack.stack_pointer
        pcl == addr_to_bytes(addr)[1]
        pch == addr_to_bytes(addr)[2]
        c1 == [c EXCEPT !.memory = Write(@, sp, pcl)]
        below == SubUsize(sp, 1, oc)
        c2 == [c1 EXCEPT !.memory = Write(@, below.val, pch)]
        lowered == SubUsize(sp, 2, oc)
    IN  IF ~InBounds(sp) THEN Panic(c, "index_out_of_bounds")
        ELSE IF below.panic # "none" THEN Panic(c1, below.panic)
        ELSE IF ~InBounds(below.val) THEN Panic(c1, "index_out_of_bounds")
        ELSE IF lowered.panic # "none" THEN Panic(c2, lowered.panic)
        ELSE Ok([c2 EXCEPT !.stack.stack_pointer = lowered.val])

\* cpu.rs:186  Stack::push_addr, on [stack, memory]
push_addr(c, addr, oc) ==
    LET sp == c.stack.stack_pointer
        pcl == addr_to_bytes(addr)[1]
        pch == addr_to_bytes(addr)[2]
        c1 == [c EXCEPT !.memory = Write(@, sp, pch)]
        below == SubUsize(sp, 1, oc)
        c2 == [c1 EXCEPT !.memory = Write(@, below.val, pcl)]
        lowered == SubUsize(sp, 2, oc)
    IN  IF ~InBounds(sp) THEN Panic(c, "index_out_of_bounds")
        ELSE IF below.panic # "none" THEN Panic(c1, below.panic)
        ELSE IF ~InBounds(below.val) THEN Panic(c1, "index_out_of_bounds")
        ELSE IF lowered.panic # "none" THEN Panic(c2, lowered.panic)
        ELSE Ok([c2 EXCEPT !.stack.stack_pointer = lowered.val])

\* Stack::push lowering the pointer before it writes
push_predecrement(c, value, oc) ==
    LET sp == c.stack.stack_pointer
        lowered == SubUsize(sp, 1, oc)
    IN  IF lowered.panic # "none" THEN Panic(c, lowered.panic)
        ELSE IF ~InBounds(lowered.val) THEN Panic(c, "index_out_of_bounds")
        ELSE Ok([c EXCEPT !.memory = Write(@, lowered.val, value),
                          !.stack.stack_pointer = lowered.val])

\* cpu.rs:195  Stack::push
push(c, value, oc) ==
    LET sp == c.stack.stack_pointer
        c1 == [c EXCEPT !.memory = Write(@, sp, value)]
        lowered == SubUsize(sp, 1, oc)
    IN  IF ~InBounds(sp) THEN Panic(c, "index_out_of_bounds")
        ELSE IF lowered.panic # "none" THEN Panic(c1, lowered.panic)
        ELSE Ok([c1 EXCEPT !.stack.stack_pointer = lowered.val])

\* Stack::pop reading at the pointer before it raises it
pop_at_pointer(c) ==
    LET sp == c.stack.stack_pointer
    IN  IF ~InBounds(sp) THEN [cpu |-> c, panic |-> "index_out_of_bounds", val |-> 0]
        ELSE [cpu |-> [c EXCEPT !.stack.stack_pointer = sp + 1],
              panic |-> "none",
              val |-> Read(c.memory, sp)]

\* cpu.rs:200  Stack::pop: the CPU after it and the byte popped
pop(c) ==
    LET sp == c.stack.stack_pointer
    IN  IF ~InBounds(sp + 1) THEN [cpu |-> c, panic |-> "index_out_of_bounds", val |-> 0]
        ELSE [cpu |-> [c EXCEPT !.stack.stack_pointer = sp + 1],
              panic |-> "none",
              val |-> Read(c.memory, sp + 1)]

\* Stack::pop_addr reading pch below pcl: the high byte first
pop_addr_high_first(c) ==
    LET sp == c.stack.stack_pointer
    IN  IF ~InBounds(sp + 1) \/ ~InBounds(sp + 2)
        THEN [cpu |-> c, panic |-> "index_out_of_bounds", val |-> <<0, 0>>]
        ELSE [cpu |-> [c EXCEPT !.stack.stack_pointer = sp + 2],
              panic |-> "none",
              val |-> <<Read(c.memory, sp + 2), Read(c.memory, sp + 1)>>]

\* cpu.rs:208  Stack::pop_addr: the CPU after it and (pcl, pch)
pop_addr(c) ==
    LET sp == c.stack.stack_pointer
    IN  IF ~InBounds(sp + 1) \/ ~InBounds(sp + 2)
        THEN [cpu |-> c, panic |-> "index_out_of_bounds", val |-> <<0, 0>>]
        ELSE [cpu |-> [c EXCEPT !.stack.stack_pointer = sp + 2],
              panic |-> "none",
              val |-> <<Read(c.memory, sp + 1), Read(c.memory, sp + 2)>>]

\* Jsr::execute pushing the address after the instruction: the `- 1` left out
JsrExecutePushesNext(op, c, oc) ==
    LET after == AddU16(c.program_counter, 3, oc)
        pushed == push_addr(c, after.val, oc)
        addr == to_addr(op.mode, pushed.cpu, oc)
    IN  IF after.panic # "none" THEN Panic(c, after.panic)
        ELSE IF pushed.panic # "none" THEN pushed
        ELSE IF addr.panic # "none" THEN Panic(pushed.cpu, addr.panic)
        ELSE Ok([pushed.cpu EXCEPT !.program_counter = addr.val, !.cycles = @ + 6])

\* jump.rs:96  Jsr::execute
JsrExecute(op, c, oc) ==
    LET after == AddU16(c.program_counter, 3, oc)
        return_address == SubU16(after.val, 1, oc)
        pushed == push_addr(c, return_address.val, oc)
        addr == to_addr(op.mode, pushed.cpu, oc)
    IN  IF after.panic # "none" THEN Panic(c, after.panic)
        ELSE IF return_address.panic # "none" THEN Panic(c, return_address.panic)
        ELSE IF pushed.panic # "none" THEN pushed
        ELSE IF addr.panic # "none" THEN Panic(pushed.cpu, addr.panic)
        ELSE Ok([pushed.cpu EXCEPT !.program_counter = addr.val, !.cycles = @ + 6])

\* Rts::execute without its `cpu.program_counter += Rts::BYTES`
RtsExecuteNoAdvance(op, c, oc) ==
    LET popped == pop_addr(c)
        return_address == bytes_to_addr(popped.val[1], popped.val[2])
        c1 == [popped.cpu EXCEPT !.program_counter = return_address]
    IN  IF popped.panic # "none" THEN Panic(popped.cpu, popped.panic)
        ELSE Ok([c1 EXCEPT !.cycles = @ + 6])

\* jump.rs:136  Rts::execute
RtsExecute(op, c, oc) ==
    LET popped == pop_addr(c)
        return_address == bytes_to_addr(popped.val[1], popped.val[2])
        c1 == [popped.cpu EXCEPT !.program_counter = return_address]
        advanced == AddU16(return_address, 1, oc)
    IN  IF popped.panic # "none" THEN Panic(popped.cpu, popped.panic)
        ELSE IF advanced.panic # "none" THEN Panic(c1, advanced.panic)
        ELSE Ok([c1 EXCEPT !.program_counter = advanced.val, !.cycles = @ + 6])

\* Nop::execute without its `cpu.cycles += Self::CYCLES`
NopExecuteNoCycles(op, c, oc) ==
    LET advanced == AddU16(c.program_counter, 1, oc)
    IN  IF advanced.panic # "none" THEN Panic(c, advanced.panic)
        ELSE Ok([c EXCEPT !.program_counter = advanced.val])

\* mod.rs:122  Nop::execute
NopExecute(op, c, oc) ==
    LET advanced == AddU16(c.program_counter, 1, oc)
    IN  IF advanced.panic # "none" THEN Panic(c, advanced.panic)
        ELSE Ok([c EXCEPT !.program_counter = advanced.val, !.cycles = @ + 2])

\* mod.rs:169  Bit::get_bytes
BitGetBytes(op) ==
    CASE op.mode.kind = "ZeroPage" -> Val(2)
      [] op.mode.kind = "Absolute" -> Val(3)
      [] OTHER -> Fail("unexpected")

\* mod.rs:183  Bit::get_cycles
BitGetCycles(op) ==
    CASE op.mode.kind = "ZeroPage" -> Val(3)
      [] op.mode.kind = "Absolute" -> Val(4)
      [] OTHER -> Fail("unexpected")

\* Bit::execute writing the result back to the byte it tested
BitExecuteStoresResult(op, c, oc) ==
    LET bytes == BitGetBytes(op)
        advanced == AddU16(c.program_counter, bytes.val, oc)
        c1 == [c EXCEPT !.program_counter = advanced.val]
        cost == BitGetCycles(op)
        c2 == [c1 EXCEPT !.cycles = @ + cost.val]
        test_value == to_value(op.mode, c2, oc)
        result == BitAnd(test_value.val, c2.a)
    IN  IF bytes.panic # "none" THEN Panic(c, bytes.panic)
        ELSE IF advanced.panic # "none" THEN Panic(c, advanced.panic)
        ELSE IF cost.panic # "none" THEN Panic(c1, cost.panic)
        ELSE IF test_value.panic # "none" THEN Panic(c2, test_value.panic)
        ELSE Ok([c2 EXCEPT !.status = update_bit(@, result),
                           !.memory = Write(@, to_addr(op.mode, c2, oc).val, result)])

\* mod.rs:199  Bit::execute
BitExecute(op, c, oc) ==
    LET bytes == BitGetBytes(op)
        advanced == AddU16(c.program_counter, bytes.val, oc)
        c1 == [c EXCEPT !.program_counter = advanced.val]
        cost == BitGetCycles(op)
        c2 == [c1 EXCEPT !.cycles = @ + cost.val]
        test_value == to_value(op.mode, c2, oc)
        result == BitAnd(test_value.val, c2.a)
    IN  IF bytes.panic # "none" THEN Panic(c, bytes.panic)
        ELSE IF advanced.panic # "none" THEN Panic(c, advanced.panic)
        ELSE IF cost.panic # "none" THEN Panic(c1, cost.panic)
        ELSE IF test_value.panic # "none" THEN Panic(c2, test_value.panic)
        ELSE Ok([c2 EXCEPT !.status = update_bit(@, result)])

\* The ProcessorStatus a byte converts into (Pull::execute's value.into()):
\* the inverse of the packing for bits 0-4, 6 and 7; bit 5 is ignored.
U8ToStatus(value) ==
    [carry |-> BitSet(value, 1), zero |-> BitSet(value, 2),
     interrupt_disable |-> BitSet(value, 4), decimal |-> BitSet(value, 8),
     b_flag |-> BitSet(value, 16), overflow |-> BitSet(value, 64),
     negative |-> BitSet(value, 128)]

\* push_pull.rs:47  Push::execute
PushExecute(op, c, oc) ==
    LET advanced == AddU16(c.program_counter, 1, oc)
        c1 == [c EXCEPT !.program_counter = advanced.val, !.cycles = @ + 3]
        value == IF op.register = "Accumulator" THEN c1.a ELSE StatusToU8(c1.status)
        pushed == push(c1, value, oc)
    IN  IF advanced.panic # "none" THEN Panic(c, advanced.panic) ELSE pushed

\* push_pull.rs:95  Pull::execute
PullExecute(op, c, oc) ==
    LET advanced == AddU16(c.program_counter, 1, oc)
        c1 == [c EXCEPT !.program_counter = advanced.val, !.cycles = @ + 4]
        popped == pop(c1)
        c2 == popped.cpu
    IN  IF advanced.panic # "none" THEN Panic(c, advanced.panic)
        ELSE IF popped.panic # "none" THEN Panic(c2, popped.panic)
        ELSE IF op.register = "Accumulator"
             THEN Ok([c2 EXCEPT !.a = popped.val, !.status = update_load(@, popped.val)])
        ELSE Ok([c2 EXCEPT !.status = U8ToStatus(popped.val)])

\* Operation::execute of the boxed operation
Execute(op, c, oc) ==
    CASE op.family = "Branch" -> BranchExecute(op, c, oc)
      [] op.family = "Flag" -> FlagExecute(op, c, oc)
      [] op.family = "Load" -> LoadExecute(op, c, oc)
      [] op.family = "Store" -> StoreExecute(op, c, oc)
      [] op.family = "Jmp" -> JmpExecute(op, c, oc)
      [] op.family = "Jsr" -> JsrExecute(op, c, oc)
      [] op.family = "Rts" -> RtsExecute(op, c, oc)
      [] op.family = "Nop" -> NopExecute(op, c, oc)
      [] op.family = "Bit" -> BitExecute(op, c, oc)
      [] op.family = "Push" -> PushExecute(op, c, oc)
      [] op.family = "Pull" -> PullExecute(op, c, oc)

\* Operation::dump of the boxed operation: the panic it may end in.  The
\* operand dumps format value_to_string() and then to_string(cpu)
\* (load.rs:148, store.rs:140, jump.rs:59, jump.rs:109, mod.rs:209).
Dump(op, c, oc) ==
    IF op.family = "Branch" THEN BranchDump(op, c, oc)
    ELSE IF op.family \in {"Load", "Store", "Jmp", "Jsr", "Bit"}
         THEN IF value_to_string_panic(op.mode) # "none"
              THEN value_to_string_panic(op.mode)
              ELSE to_string_panic(op.mode, c, oc)
    ELSE "none"

---------------------------------------------------------------------------
NoTrace == [lines |-> 0, pc |-> 0, a |-> 0, x |-> 0, y |-> 0, p |-> 0, sp |-> 0, cyc |-> 0]
Fault(kind, opcode, stage) ==
    IF kind = "none" THEN [kind |-> "none", opcode |-> 0, stage |-> "none"]
    ELSE [kind |-> kind,
          opcode |-> IF kind = "unexpected_opcode" THEN opcode ELSE 0,
          stage |-> stage]

\* A direct call, and none
Call(name, arg, result, touched) ==
    [name |-> name, arg |-> arg, result |-> result, touched |-> touched]
NoCall == Call("none", 0, 0, {})

Cpu == [program_counter |-> program_counter, stack |-> stack, status |-> status,
        a |-> a, x |-> x, y |-> y, memory |-> memory, cycles |-> cycles]

SetCpu(c) ==
    /\ program_counter' = c.program_counter
    /\ stack' = c.stack
    /\ status' = c.status
    /\ a' = c.a
    /\ x' = c.x
    /\ y' = c.y
    /\ memory' = c.memory
    /\ cycles' = c.cycles

\* main.rs:24-26: the ROM is loaded and the CPU constructed from it.
Init ==
    \E image \in Images :
        \E r \in {CpuNew(PrgRom(image))}, oc \in BOOLEAN, le \in BOOLEAN :
            /\ program_counter = r.cpu.program_counter
            /\ stack = r.cpu.stack
            /\ status = r.cpu.status
            /\ a = r.cpu.a
            /\ x = r.cpu.x
            /\ y = r.cpu.y
            /\ memory = r.cpu.memory
            /\ cycles = r.cpu.cycles
            /\ prg = image
            /\ operation = NoOperation
            /\ trace = NoTrace
            /\ fault = Fault(r.panic, 0, "new")
            /\ executed = 0
            /\ overflow_checks = oc
            /\ log_enabled = le
            /\ call = NoCall

\* The info! line of Cpu::run placed after operation.execute(self): its
\* arguments are evaluated on the CPU as execute leaves it
TraceLineAfterExecute(op, c, oc) ==
    LET after == Execute(op, c, oc).cpu
        sp == as_stack_offset(after.stack, oc)
    IN  IF sp.panic # "none" THEN sp
        ELSE Val([lines |-> trace.lines + 1, pc |-> after.program_counter,
                  a |-> after.a, x |-> after.x, y |-> after.y,
                  p |-> StatusToU8(after.status),
                  sp |-> sp.val, cyc |-> after.cycles])

\* cpu.rs:84  the info! line of Cpu::run: its arguments are evaluated only when
\* the info level is enabled.  The result is the line's values, or a panic.
TraceLine(op, c, oc) ==
    LET dumped == Dump(op, c, oc)
        sp == as_stack_offset(c.stack, oc)
    IN  IF dumped # "none" THEN Fail(dumped)
        ELSE IF sp.panic # "none" THEN sp
        ELSE Val([lines |-> trace.lines + 1, pc |-> c.program_counter,
                  a |-> c.a, x |-> c.x, y |-> c.y, p |-> StatusToU8(c.status),
                  sp |-> sp.val, cyc |-> c.cycles])

Running == fault.kind = "none" /\ executed < MaxSteps

\* cpu.rs:82  one iteration of the loop of Cpu::run, for an opcode that `next`
\* decodes into `family`: next, the info! line, execute.
Run(family) ==
    /\ \E d \in {next(Cpu, overflow_checks)} :
        /\ d.matched
        /\ d.op.family = family
        /\ operation' = d.op
        /\ \E line \in {TraceLine(d.op, Cpu, overflow_checks)} :
            IF log_enabled /\ line.panic # "none"
            THEN /\ fault' = Fault(line.panic, d.op.opcode, "trace")
                 /\ UNCHANGED <<program_counter, stack, status, a, x, y, memory,
                                cycles, trace, executed>>
            ELSE /\ trace' = IF log_enabled THEN line.val ELSE trace
                 /\ \E r \in {Execute(d.op, Cpu, overflow_checks)} :
                     /\ SetCpu(r.cpu)
                     /\ fault' = Fault(r.panic, d.op.opcode, "execute")
                     /\ executed' = IF r.panic = "none" THEN executed + 1 ELSE executed
    /\ UNCHANGED <<prg, overflow_checks, log_enabled, call>>

RunBranch == Running /\ Run("Branch")
RunFlag == Running /\ Run("Flag")
RunLoad == Running /\ Run("Load")
RunStore == Running /\ Run("Store")
RunJmp == Running /\ Run("Jmp")
RunJsr == Running /\ Run("Jsr")
RunRts == Running /\ Run("Rts")
RunNop == Running /\ Run("Nop")
RunBit == Running /\ Run("Bit")

\* cpu.rs:83  the iteration in which `next` panics: nothing is executed
DecodeFails ==
    /\ Running
    /\ \E d \in {next(Cpu, overflow_checks)} :
        /\ ~d.matched
        /\ fault' = Fault(d.panic, Read(memory, program_counter), "next")
    /\ UNCHANGED <<program_counter, stack, status, a, x, y, memory, cycles, prg,
                   operation, trace, executed, overflow_checks, log_enabled, call>>

Next ==
    \/ RunBranch
    \/ RunFlag
    \/ RunLoad
    \/ RunStore
    \/ RunJmp
    \/ RunJsr
    \/ RunRts
    \/ RunNop
    \/ RunBit
    \/ DecodeFails

Spec == Init /\ [][Next]_vars

---------------------------------------------------------------------------
(* Properties of construction: Cpu::new.                                   *)

\* The state Cpu::new returned and nothing has run on yet
Constructed == executed = 0 /\ fault.kind = "none"

\* C2: immediately after construction the program counter is 0xC000, the
\* stack-pointer offset is 0xFD, interrupt_disable is set and every other
\* flag is clear, A = X = Y = 0, the cycle counter is 7 and the status packs
\* to the byte 0x24.
C2_InitialState ==
    Constructed =>
        /\ program_counter = 49152
        /\ as_stack_offset(stack, overflow_checks) = Val(253)
        /\ status.interrupt_disable
        /\ ~status.carry /\ ~status.zero /\ ~status.b_flag /\ ~status.overflow
        /\ ~status.negative /\ ~status.decimal
        /\ a = 0 /\ x = 0 /\ y = 0
        /\ cycles = 7
        /\ StatusToU8(status) = 36

\* Cpu::new has returned a CPU for a 16 KiB ROM
C2_Witness == Constructed /\ prg = OpeningImage /\ program_counter = 49152

\* C3: after Cpu::new with a 16 KiB PRG ROM buffer, memory[0x8000 + i] and
\* memory[0xC000 + i] both equal prg_rom[i] for every i in 0 .. 0x3FFF, and
\* every byte below 0x8000 is 0.
C3_RomMirrored ==
    (Constructed /\ get_prg_rom_size(prg) = 16384) =>
        /\ Len(memory) = MEMORY_SIZE_MAX
        /\ SubSeq(memory, FIRST_16_KB_OF_ROM + 1, LAST_16_KB_OF_ROM) = PrgRom(prg)
        /\ SubSeq(memory, LAST_16_KB_OF_ROM + 1, MEMORY_SIZE_MAX) = PrgRom(prg)
        /\ SubSeq(memory, 1, FIRST_16_KB_OF_ROM) = Zeroes16K \o Zeroes16K

\* Cpu::new has copied a ROM whose first and last bytes are not 0: both
\* copies of both bytes are in place
C3_Witness ==
    /\ Constructed
    /\ prg = TopImage(65535, <<56>>)
    /\ Read(memory, 32768) = 76 /\ Read(memory, 49152) = 76
    /\ Read(memory, 49151) = 56 /\ Read(memory, 65535) = 56
    /\ Read(memory, 32767) = 0

\* C4: Cpu::new accepts a 32 KiB PRG ROM buffer and maps it directly:
\* memory[0x8000 + i] = prg_rom[i] for every i in 0 .. 0x7FFF.
C4_LargeRomMapped ==
    get_prg_rom_size(prg) = 32768 =>
        /\ fault.kind = "none"
        /\ executed = 0 => SubSeq(memory, FIRST_16_KB_OF_ROM + 1, MEMORY_SIZE_MAX) = PrgRom(prg)

---------------------------------------------------------------------------
(* Properties of the run loop.                                             *)

\* The step from one state to the next executed one instruction to its end
Executed == executed' = executed + 1

\* C5: the cycle counter is at least 7 in every reachable state, no step
\* lowers it, and every successfully executed instruction increases it by at
\* least 2.
C5_CyclesGrow ==
    /\ [](cycles >= 7)
    /\ [][cycles' >= cycles]_vars
    /\ [][Executed => cycles' >= cycles + 2]_vars

\* Two instructions have executed, the second a two-cycle one
C5_Witness ==
    /\ executed = 2 /\ fault.kind = "none"
    /\ prg = OpeningImage /\ operation.family = "Load" /\ cycles = 12

\* A step ended in an arithmetic overflow of the program counter: the
\* families named do no other arithmetic that can overflow in execute
PcOverflowed ==
    /\ fault.kind = "overflow"
    /\ fault.stage = "execute"
    /\ operation.family \in {"Flag", "Nop", "Rts", "Branch"}

\* C6: after any sequence of executed instructions (an instruction at the top
\* of memory, an RTS returning to 0xFFFF + 1, a taken branch past 0xFFFF
\* among them) the program counter is in 0 .. 0xFFFF and the step completes
\* without an arithmetic-overflow failure.
C6_PcInRange == program_counter \in Address /\ ~PcOverflowed

\* The byte length of an instruction: 1 for the implied ones, 2 for a branch
\* and for an immediate, zero-page or indexed-indirect operand, 3 for an
\* absolute operand
InstructionLength(op) ==
    IF op.family \in {"Flag", "Nop", "Push", "Pull"} THEN 1
    ELSE IF op.family = "Branch" THEN 2
    ELSE IF op.mode.kind \in {"Immediate", "ZeroPage", "Indirect"} THEN 2
    ELSE 3

\* op is no jump, call, return or taken branch when the status is s
NotAJump(op, s) ==
    \/ op.family \in {"Load", "Store", "Flag", "Nop", "Bit", "Push", "Pull"}
    \/ op.family = "Branch" /\ ~BranchCondition(op.register, s)

\* Push::execute and Pull::execute, run on the current CPU, advance the
\* program counter by 1 when they return
PushPullAdvance ==
    \A opcode \in {72, 8, 104, 40} :
        LET d == IF opcode \in {72, 8} THEN PushNew(opcode) ELSE PullNew(opcode)
            r == Execute(d.op, Cpu, overflow_checks)
        IN  /\ d.matched
            /\ r.panic = "none" =>
                    r.cpu.program_counter = (program_counter + InstructionLength(d.op)) % 65536

\* C7: every executed instruction that is not a jump, call, return or taken
\* branch (Load, Store, Flag, NOP, BIT, Push, Pull, a branch not taken)
\* leaves the program counter at its old value plus the instruction's byte
\* length, in the 16 bits of the register.
C7_PcAdvances ==
    /\ [][(Executed /\ NotAJump(operation', status)) =>
              program_counter' = (program_counter + InstructionLength(operation')) % 65536]_vars
    /\ []PushPullAdvance

\* LDA $0210 has executed at 0xC000: the program counter is 0xC003
C7_Witness ==
    /\ executed = 1 /\ fault.kind = "none"
    /\ operation.family = "Load" /\ operation.mode.kind = "Absolute"
    /\ operation.opcode = 173
    /\ program_counter = 49155

---------------------------------------------------------------------------
(* Properties of the dispatcher: opcode::next.                             *)

AllFamilies ==
    {"Branch", "Flag", "Load", "Store", "Jmp", "Jsr", "Rts", "Nop", "Bit", "Push", "Pull"}

\* The families whose `new` returns Some for the opcode
Recognizing(opcode, c, oc) ==
    {family \in AllFamilies : FamilyNew(family, opcode, c, oc).matched}

RECURSIVE Reversed(_)
Reversed(order) ==
    IF order = <<>> THEN <<>> ELSE Reversed(Tail(order)) \o <<Head(order)>>

Rotated(order, k) == SubSeq(order, k + 1, Len(order)) \o SubSeq(order, 1, k)

\* Orders next could try its families in: every rotation of its order, and
\* each of them backwards
OtherOrders ==
    {Rotated(DispatchOrder, k) : k \in 1 .. Len(DispatchOrder) - 1}
    \cup {Reversed(Rotated(DispatchOrder, k)) : k \in 0 .. Len(DispatchOrder) - 1}

\* The opcode next reads, and whether the operand bytes the families read
\* before they match the opcode are inside memory
OpcodeAtPc == Read(memory, program_counter)
OperandsInMemory == InBounds(program_counter + 2)

\* C8: the opcode sets of the families (Branch, Flag, Load, Store, Jmp, Jsr,
\* Rts, Nop, Bit, Push, Pull) are pairwise disjoint: at most one family
\* recognizes an opcode byte, so what next decodes does not depend on the
\* order in which it tries the families.
C8_CollisionFree ==
    /\ Constructed =>
          \A opcode \in Byte : Cardinality(Recognizing(opcode, Cpu, overflow_checks)) <= 1
    /\ OperandsInMemory =>
          /\ Cardinality(Recognizing(OpcodeAtPc, Cpu, overflow_checks)) <= 1
          /\ \A order \in OtherOrders :
                TryEach(order, OpcodeAtPc, Cpu, overflow_checks) = next(Cpu, overflow_checks)

\* next has decoded BIT $10, which the last family it tries recognizes, and
\* the instruction has executed
C8_Witness ==
    /\ executed = 1 /\ fault.kind = "none"
    /\ operation.family = "Bit" /\ operation.opcode = 36
    /\ Recognizing(36, Cpu, overflow_checks) = {"Bit"}

\* C9: next recognizes the opcodes of every instruction family, PHA (0x48),
\* PHP (0x08), PLA (0x68) and PLP (0x28) among them.
C9_EveryFamilyDecoded ==
    OperandsInMemory =>
        \A family \in AllFamilies :
            FamilyNew(family, OpcodeAtPc, Cpu, overflow_checks).matched =>
                /\ next(Cpu, overflow_checks).matched
                /\ next(Cpu, overflow_checks).op.family = family

\* C10: decoding an opcode byte that no family recognizes yields an
\* UnsupportedOpcode failure carrying the opcode byte and the program
\* counter, and leaves all CPU state unchanged.
C10_UnsupportedOpcode ==
    (fault.stage = "next" /\ Recognizing(OpcodeAtPc, Cpu, overflow_checks) = {}) =>
        /\ fault.kind = "unexpected_opcode"
        /\ fault.opcode = OpcodeAtPc
        /\ "pc" \in DOMAIN fault
        /\ fault.pc = program_counter

\* The registers, flags, stack pointer, memory and counters of the CPU
cpu_vars == <<program_counter, stack, status, a, x, y, memory, cycles>>

\* The run has stopped on a failure of decoding (a panic inside next) or of
\* resolving an addressing mode
DecodeOrAddressingFailure == fault.stage = "next" \/ fault.kind = "unsupported"

\* C11: an unrecognized opcode halts the whole run: once decode has failed no
\* further instruction is executed and the state never changes again; and
\* the run loop stops for no other reason than a decode or addressing
\* failure: while it has not failed it always has a next iteration.
C11_HaltsOnlyOnDecodeFailure ==
    /\ [][fault.kind # "none" => UNCHANGED vars]_vars
    /\ [](fault.stage \in {"next", "trace", "execute"} => DecodeOrAddressingFailure)
    /\ [](Running => ENABLED Next)

\* The operation decoded last has an Indirect addressing mode
IndirectDecoded == operation.mode.kind = "Indirect"

\* C12: resolving or executing an instruction whose addressing mode is
\* Indirect (JMP indirect 0x6C, LDA 0xA1/0xB1, STA 0x81/0x91) fails with the
\* unsupported-addressing-mode failure, which is not the unknown-opcode
\* failure, and the failure leaves the CPU state unchanged: no update of the
\* program counter, the cycles, a register or memory has been applied.
C12_IndirectUnsupported ==
    /\ [](IndirectDecoded => fault.kind = "unsupported")
    /\ [][fault'.kind = "unsupported" => UNCHANGED cpu_vars]_vars

---------------------------------------------------------------------------
(* The status conversions called directly, on every status and every byte. *)

\* Every value of ProcessorStatus (cpu.rs:103): seven booleans
AllStatuses ==
    [carry : BOOLEAN, zero : BOOLEAN, b_flag : BOOLEAN, interrupt_disable : BOOLEAN,
     overflow : BOOLEAN, negative : BOOLEAN, decimal : BOOLEAN]

\* The conversions work on a ProcessorStatus alone: no Cpu is constructed,
\* and the other variables are idle.
StatusInit ==
    /\ status \in AllStatuses
    /\ program_counter = 0
    /\ stack = StackNew
    /\ a = 0 /\ x = 0 /\ y = 0
    /\ memory = <<>>
    /\ cycles = 0
    /\ prg = Image(0, <<>>)
    /\ operation = NoOperation
    /\ trace = NoTrace
    /\ fault = Fault("none", 0, "none")
    /\ executed = 0
    /\ overflow_checks = FALSE
    /\ log_enabled = FALSE
    /\ call = NoCall

\* u8::from(&cpu.status), as the info! line of Cpu::run and Push::execute use it
Encode ==
    /\ call' = Call("encode", 0, StatusToU8(status), {})
    /\ UNCHANGED <<program_counter, stack, status, a, x, y, memory, cycles, prg,
                   operation, trace, fault, executed, overflow_checks, log_enabled>>

\* cpu.status = value.into(), as Pull::execute uses it, for a byte
Decode ==
    \E value \in Byte :
        /\ status' = U8ToStatus(value)
        /\ call' = Call("decode", value, 0, {})
        /\ UNCHANGED <<program_counter, stack, a, x, y, memory, cycles, prg,
                       operation, trace, fault, executed, overflow_checks, log_enabled>>

StatusNext ==
    \/ Encode
    \/ Decode

StatusSpec == StatusInit /\ [][StatusNext]_vars

\* C13: the status byte packs carry in bit 0, zero in bit 1, interrupt
\* disable in bit 2, decimal in bit 3, break in bit 4, a constant 1 in bit 5,
\* overflow in bit 6 and negative in bit 7, for every combination of flags.
C13_StatusPacking ==
    call.name = "encode" =>
        /\ call.result \in Byte
        /\ BitSet(call.result, 1) = status.carry
        /\ BitSet(call.result, 2) = status.zero
        /\ BitSet(call.result, 4) = status.interrupt_disable
        /\ BitSet(call.result, 8) = status.decimal
        /\ BitSet(call.result, 16) = status.b_flag
        /\ BitSet(call.result, 32)
        /\ BitSet(call.result, 64) = status.overflow
        /\ BitSet(call.result, 128) = status.negative

\* The status with zero, decimal and overflow set has been encoded: 0x6A
C13_Witness ==
    /\ call.name = "encode"
    /\ status.zero /\ status.decimal /\ status.overflow
    /\ ~status.carry /\ ~status.interrupt_disable /\ ~status.b_flag /\ ~status.negative
    /\ call.result = 106

\* b with bit 5 set
WithBit5(b) == IF BitSet(b, 32) THEN b ELSE b + 32

\* C14: for every byte b, encoding the status decoded from b gives b with bit
\* 5 forced to 1; and for every combination of flags s, decoding the byte s
\* encodes to gives s.
C14_StatusRoundTrip ==
    /\ call.name = "decode" => StatusToU8(status) = WithBit5(call.arg)
    /\ call.name = "encode" => U8ToStatus(call.result) = status

\* The byte 0x81 has been decoded: carry and negative only, encoding to 0xA1
C14_Witness ==
    /\ call.name = "decode" /\ call.arg = 129
    /\ status.carry /\ status.negative /\ ~status.b_flag /\ ~status.zero
    /\ StatusToU8(status) = 161

---------------------------------------------------------------------------
(* The methods of Stack called directly on a new CPU, in any order.         *)

\* The bytes and addresses handed to push and push_addr
PushedValues == {0, 171}
PushedAddresses == {49154, 4863}

\* A new CPU (Cpu::new on an empty 16 KiB ROM) in either build
StackInit ==
    \E r \in {CpuNew(PrgRom(Image(1, <<>>)))}, oc \in BOOLEAN :
        /\ program_counter = r.cpu.program_counter
        /\ stack = r.cpu.stack
        /\ status = r.cpu.status
        /\ a = r.cpu.a
        /\ x = r.cpu.x
        /\ y = r.cpu.y
        /\ memory = r.cpu.memory
        /\ cycles = r.cpu.cycles
        /\ prg = Image(1, <<>>)
        /\ operation = NoOperation
        /\ trace = NoTrace
        /\ fault = Fault(r.panic, 0, "new")
        /\ executed = 0
        /\ overflow_checks = oc
        /\ log_enabled = FALSE
        /\ call = NoCall

\* The call `made` has returned r, or panicked as r says
Called(made, r) ==
    /\ SetCpu(r.cpu)
    /\ fault' = Fault(r.panic, 0, "call")
    /\ call' = made
    /\ executed' = executed + 1
    /\ UNCHANGED <<prg, operation, trace, overflow_checks, log_enabled>>

\* No call has panicked and fewer than `bound` calls have been made
CanCall(bound) == fault.kind = "none" /\ executed < bound

\* cpu.stack.push(&mut cpu.memory, value): it accesses memory[stack_pointer]
PushOf(values) ==
    \E value \in values :
        \E r \in {push(Cpu, value, overflow_checks)} :
            Called(Call("push", value, 0, {stack.stack_pointer}), r)

StackPush == CanCall(MaxCalls) /\ PushOf(PushedValues)

\* cpu.stack.pop(&mut cpu.memory): it accesses memory[stack_pointer + 1]
StackPop ==
    /\ CanCall(MaxCalls)
    /\ \E r \in {pop(Cpu)} :
        Called(Call("pop", 0, r.val, {stack.stack_pointer + 1}), r)

\* cpu.stack.push_addr(&mut cpu.memory, addr): it accesses
\* memory[stack_pointer] and memory[stack_pointer - 1]
StackPushAddr ==
    /\ CanCall(MaxCalls)
    /\ \E addr \in PushedAddresses :
        \E r \in {push_addr(Cpu, addr, overflow_checks)} :
            Called(Call("push_addr", addr, 0,
                        {stack.stack_pointer, stack.stack_pointer - 1}), r)

\* cpu.stack.pop_addr(&mut cpu.memory): it accesses memory[stack_pointer + 1]
\* and memory[stack_pointer + 2]
StackPopAddr ==
    /\ CanCall(MaxCalls)
    /\ \E r \in {pop_addr(Cpu)} :
        Called(Call("pop_addr", 0, bytes_to_addr(r.val[1], r.val[2]),
                    {stack.stack_pointer + 1, stack.stack_pointer + 2}), r)

StackNext ==
    \/ StackPush
    \/ StackPop
    \/ StackPushAddr
    \/ StackPopAddr

StackSpec == StackInit /\ [][StackNext]_vars

RECURSIVE PushTimes(_, _, _, _)
\* n calls of cpu.stack.push(&mut cpu.memory, value), one after the other,
\* up to the first that panics
PushTimes(c, value, n, oc) ==
    IF n = 0 THEN Ok(c)
    ELSE LET r == push(c, value, oc)
         IN  IF r.panic # "none" THEN r ELSE PushTimes(r.cpu, value, n - 1, oc)

\* A sequence of pushes on the new CPU: up to MaxPushes of them
PushSequence ==
    /\ CanCall(1)
    /\ \E n \in 1 .. MaxPushes :
        \E r \in {PushTimes(Cpu, 171, n, overflow_checks)} :
            /\ SetCpu(r.cpu)
            /\ fault' = Fault(r.panic, 0, "call")
            /\ call' = Call("push", 171, 0,
                            {stack.stack_pointer - i : i \in 0 .. n - 1})
            /\ executed' = n
            /\ UNCHANGED <<prg, operation, trace, overflow_checks, log_enabled>>

PushSpec == StackInit /\ [][PushSequence]_vars

\* The stack-pointer offset of a Stack, where it can be computed
Offset(s) == as_stack_offset(s, overflow_checks).val

\* C15: the stack page base is 0x0100: push(v) writes v at the absolute
\* address 0x0100 + stack_pointer and then decrements stack_pointer; pop()
\* increments stack_pointer and then returns the byte at 0x0100 +
\* stack_pointer; so push(v) followed by pop() returns v and restores
\* stack_pointer.
C15_StackBase ==
    /\ [][call'.name = "push" =>
              /\ fault'.kind = "none"
              /\ Read(memory', 256 + Offset(stack)) = call'.arg
              /\ Offset(stack') = (Offset(stack) + 255) % 256]_vars
    /\ [][call'.name = "pop" =>
              /\ fault'.kind = "none"
              /\ Offset(stack') = (Offset(stack) + 1) % 256
              /\ call'.result = Read(memory, 256 + Offset(stack'))]_vars
    /\ [][(call.name = "push" /\ call'.name = "pop") => call'.result = call.arg]_vars

\* The page the stack pointer of a new CPU points into
StackPage == STACK_BASE .. STACK_BASE + 255

\* C16: after any sequence of push, pop, push_addr and pop_addr the
\* stack-pointer offset is in 0 .. 255 and every memory read or write made by
\* a stack operation is at an address inside the one stack page [base, base
\* + 0xFF]: the stack never leaves that page on overflow or underflow.
C16_StackStaysInPage ==
    /\ fault.kind = "none"
    /\ stack.stack_pointer - STACK_BASE \in 0 .. 255
    /\ call.touched \subseteq StackPage

\* C17: pushing 257 bytes in sequence succeeds and leaves the stack-pointer
\* offset equal to its value after the first push: the pointer wraps modulo
\* 256.
C17_StackWraps ==
    (call.name = "push" /\ executed = 257) =>
        /\ fault.kind = "none"
        /\ as_stack_offset(stack, overflow_checks)
             = as_stack_offset([stack_pointer |-> StackNew.stack_pointer - 1], overflow_checks)

---------------------------------------------------------------------------
(* AddressMode::to_addr called directly, on every zero-page operand and a   *)
(* choice of absolute operands, for every value of the index register.     *)

\* The Absolute operand addresses resolved: the ends of the address space,
\* of a page, and one inside
ResolvedAddresses == {0, 255, 256, 4660, 65280, 65535}

\* The ZeroPage and Absolute modes resolved
ResolvedModes ==
    {Mode("ZeroPage", register, offset) :
        register \in {"None", "X", "Y"}, offset \in Byte}
    \cup {Mode("Absolute", register, address) :
        register \in {"None", "X", "Y"}, address \in ResolvedAddresses}

\* to_addr reads cpu.x, cpu.y and cpu.program_counter only: x takes every
\* value and y another one with it; the memory is idle.
ResolveInit ==
    /\ x \in Byte
    /\ y = (x + 128) % 256
    /\ overflow_checks \in BOOLEAN
    /\ program_counter = 49152
    /\ stack = StackNew
    /\ status = ProcessorStatusNew
    /\ a = 0
    /\ memory = <<>>
    /\ cycles = 7
    /\ prg = Image(0, <<>>)
    /\ operation = NoOperation
    /\ trace = NoTrace
    /\ fault = Fault("none", 0, "none")
    /\ executed = 0
    /\ log_enabled = FALSE
    /\ call = NoCall

\* mode.to_addr(cpu), for the mode of an operation
Resolve ==
    /\ call.name = "none"
    /\ \E mode \in ResolvedModes :
        \E r \in {to_addr(mode, Cpu, overflow_checks)} :
            /\ operation' = Operation("None", 0, mode, "None")
            /\ call' = Call("to_addr", 0, r.val, {})
            /\ fault' = Fault(r.panic, 0, "call")
    /\ UNCHANGED <<program_counter, stack, status, a, x, y, memory, cycles, prg,
                   trace, executed, overflow_checks, log_enabled>>

ResolveSpec == ResolveInit /\ [][Resolve]_vars

\* The value of the index register a mode names, 0 for none
IndexOf(mode) ==
    IF mode.register = "X" THEN x ELSE IF mode.register = "Y" THEN y ELSE 0

\* to_addr has been called on a mode of this kind
Resolved(kind) == call.name = "to_addr" /\ operation.mode.kind = kind

\* C18: for every ZeroPage operand offset o and index register value r (X or
\* Y) resolution succeeds and the effective address is (o + r) mod 256: it
\* is in 0x0000 .. 0x00FF and never carries into page 1.
C18_ZeroPageWraps ==
    Resolved("ZeroPage") =>
        /\ fault.kind = "none"
        /\ call.result = (operation.mode.value + IndexOf(operation.mode)) % 256
        /\ call.result \in 0 .. 255

\* C19: for every Absolute operand address a and index register value r
\* resolution succeeds and the effective address is (a + r) mod 65536.
C19_AbsoluteWraps ==
    Resolved("Absolute") =>
        /\ fault.kind = "none"
        /\ call.result = (operation.mode.value + IndexOf(operation.mode)) % 65536

---------------------------------------------------------------------------
(* Properties of the instructions, in the run loop.                        *)

\* The effective address of a ZeroPage or Absolute mode, from the operand and
\* the registers of the state before the instruction
EffectiveAddress(mode) ==
    IF mode.kind = "ZeroPage" THEN (mode.value + IndexOf(mode)) % 256
    ELSE (mode.value + IndexOf(mode)) % 65536

\* The value a mode resolves to: the literal of an immediate operand, the
\* byte at the effective address otherwise
ResolvedValue(mode) ==
    IF mode.kind = "Immediate" THEN mode.value
    ELSE Read(memory, EffectiveAddress(mode))

\* C20: a load (LDA, LDX, LDY) sets its target register to the value the
\* addressing mode resolves to, zero iff that value is 0 and negative iff
\* its bit 7 is set; carry, overflow, interrupt disable, decimal, the other
\* two registers, the stack pointer and memory are unchanged.
C20_Load ==
    [][(Executed /\ operation'.family = "Load") =>
          LET value == ResolvedValue(operation'.mode)
              target == operation'.register
          IN  /\ a' = IF target = "A" THEN value ELSE a
              /\ x' = IF target = "X" THEN value ELSE x
              /\ y' = IF target = "Y" THEN value ELSE y
              /\ status'.zero = (value = 0)
              /\ status'.negative = (value >= 128)
              /\ status'.carry = status.carry
              /\ status'.overflow = status.overflow
              /\ status'.interrupt_disable = status.interrupt_disable
              /\ status'.decimal = status.decimal
              /\ stack' = stack
              /\ memory' = memory]_vars

\* LDY $20,X has loaded the negative byte 0x80 from 0x0021
C20_Witness ==
    /\ prg = LoadImage /\ executed = 4 /\ fault.kind = "none"
    /\ operation.family = "Load" /\ operation.opcode = 180
    /\ y = 128 /\ x = 1 /\ a = 128
    /\ status.negative /\ ~status.zero

\* The index register of a load's or store's mode, by its opcode: Y for the
\* absolute,Y opcodes LDA 0xB9, LDX 0xBE and STA 0x99, which get_mode matches
\* in an arm of their own, and the decoded mode's register otherwise
OpcodeIndexRegister(op) ==
    IF op.opcode \in {185, 190, 153} THEN "Y" ELSE op.mode.register

\* base and base + index lie in different 256-byte pages
CrossesPage(base, index) == base \div 256 # (base + index) \div 256

\* The cycles of a load by its mode and the registers before it
LoadCost(op) ==
    LET index == IF OpcodeIndexRegister(op) = "Y" THEN y ELSE x
    IN  CASE op.mode.kind = "Immediate" -> 2
          [] op.mode.kind = "ZeroPage" ->
                IF op.mode.register = "None" THEN 3 ELSE 4
          [] op.mode.kind = "Absolute" ->
                IF op.mode.register = "None" THEN 4
                ELSE IF CrossesPage(op.mode.value, index) THEN 5 ELSE 4
          [] OTHER -> 0

\* C21: a load adds 2 cycles for an immediate operand, 3 for zero-page, 4 for
\* zero-page indexed, 4 for absolute, and for absolute indexed 4 plus 1
\* exactly when the operand address and the operand address plus the mode's
\* index register (X for ,X modes, Y for ,Y modes) lie in different pages.
C21_LoadTiming ==
    [][(Executed /\ operation'.family = "Load") =>
          cycles' = cycles + LoadCost(operation')]_vars

\* C22: a store (STA, STX, STY) makes the byte at the effective address the
\* source register's value and changes nothing else but the program counter
\* and the cycles: every other byte of memory, the flags, A, X, Y and the
\* stack pointer are unchanged.
C22_Store ==
    [][(Executed /\ operation'.family = "Store") =>
          LET address == EffectiveAddress(operation'.mode)
              source == operation'.register
              value == IF source = "A" THEN a ELSE IF source = "X" THEN x ELSE y
          IN  /\ memory' = [memory EXCEPT ![address + 1] = value]
              /\ status' = status
              /\ a' = a /\ x' = x /\ y' = y
              /\ stack' = stack]_vars

\* STX $10 has stored X = 5 at 0x0010; A is 0
C22_Witness ==
    /\ prg = StoreImage /\ executed = 2 /\ fault.kind = "none"
    /\ operation.family = "Store" /\ operation.opcode = 134
    /\ x = 5 /\ a = 0 /\ Read(memory, 16) = 5

---------------------------------------------------------------------------
(* Properties of the branch instructions.                                  *)

\* The condition of a branch instruction, by its opcode: BCC 0x90, BCS 0xB0,
\* BEQ 0xF0, BNE 0xD0, BMI 0x30, BPL 0x10, BVC 0x50, BVS 0x70
ConditionHolds(opcode, s) ==
    CASE opcode = 144 -> ~s.carry
      [] opcode = 176 -> s.carry
      [] opcode = 240 -> s.zero
      [] opcode = 208 -> ~s.zero
      [] opcode = 48 -> s.negative
      [] opcode = 16 -> ~s.negative
      [] opcode = 80 -> ~s.overflow
      [] opcode = 112 -> s.overflow
      [] OTHER -> FALSE

\* An operand byte as a signed 8-bit offset
Signed(byte) == IF byte >= 128 THEN byte - 256 ELSE byte

\* The address offset bytes from pc, in the 16 bits of the register
Offset16(pc, offset) == (pc + offset + 65536) % 65536

\* The step executed a branch instruction to its end
BranchExecuted == Executed /\ operation'.family = "Branch"

\* C23: a branch first advances the program counter by 2; if its condition
\* holds, the program counter then becomes PC + 2 + offset, the operand byte
\* read as a signed 8-bit offset (0x80 .. 0xFF move it backwards by
\* 128 .. 1).
C23_BranchTarget ==
    [][BranchExecuted =>
          LET advanced == Offset16(program_counter, 2)
              offset == Signed(operation'.mode.value)
          IN  program_counter' =
                  IF ConditionHolds(operation'.opcode, status)
                  THEN Offset16(advanced, offset)
                  ELSE advanced]_vars

\* C24: a branch adds 2 cycles when it is not taken, 3 when it is taken and
\* the target lies in the 256-byte page of PC + 2, and 4 when it is taken and
\* the target's page differs from the page of PC + 2.
C24_BranchTiming ==
    [][BranchExecuted =>
          LET advanced == Offset16(program_counter, 2)
              target == Offset16(advanced, Signed(operation'.mode.value))
          IN  cycles' = cycles +
                  (IF ~ConditionHolds(operation'.opcode, status) THEN 2
                   ELSE IF target \div 256 = advanced \div 256 THEN 3
                   ELSE 4)]_vars

\* The opcodes of the eight branch instructions
BranchOpcodes == {144, 176, 240, 208, 48, 16, 80, 112}

\* A branch instruction is at the program counter, its operand byte in memory
BranchAtPc == OpcodeAtPc \in BranchOpcodes /\ InBounds(program_counter + 1)

\* C25: each of the eight branch instructions is decoded and is taken exactly
\* when its condition holds (BCC carry clear, BCS carry set, BEQ zero set,
\* BNE zero clear, BMI negative set, BPL negative clear, BVC overflow clear,
\* BVS overflow set); a branch, taken or not, changes nothing but the
\* program counter and the cycles.
C25_BranchConditions ==
    /\ [](BranchAtPc =>
            LET d == next(Cpu, overflow_checks)
            IN  d.matched /\ d.op.family = "Branch" /\ d.op.opcode = OpcodeAtPc)
    /\ [][BranchExecuted =>
            /\ operation'.mode.value # 0 =>
                    (program_counter' # Offset16(program_counter, 2)
                        <=> ConditionHolds(operation'.opcode, status))
            /\ status' = status
            /\ a' = a /\ x' = x /\ y' = y
            /\ stack' = stack
            /\ memory' = memory]_vars

---------------------------------------------------------------------------
(* Properties of the flag instructions and of the flags.                   *)

\* The flag a flag instruction names and the value it gives it, by opcode:
\* CLC 0x18, SEC 0x38, CLI 0x58, SEI 0x78, CLV 0xB8, CLD 0xD8, SED 0xF8
FlagWritten(opcode) ==
    CASE opcode = 24 -> <<"carry", FALSE>>
      [] opcode = 56 -> <<"carry", TRUE>>
      [] opcode = 88 -> <<"interrupt_disable", FALSE>>
      [] opcode = 120 -> <<"interrupt_disable", TRUE>>
      [] opcode = 184 -> <<"overflow", FALSE>>
      [] opcode = 216 -> <<"decimal", FALSE>>
      [] opcode = 248 -> <<"decimal", TRUE>>

\* C26: each flag instruction sets exactly one named flag to a fixed value
\* (CLC carry := false, SEC carry := true, CLI interrupt disable := false,
\* SEI interrupt disable := true, CLV overflow := false, CLD decimal :=
\* false, SED decimal := true) and leaves the six other flags, the
\* registers, the stack pointer and memory unchanged.
C26_FlagInstructions ==
    [][(Executed /\ operation'.family = "Flag") =>
          LET written == FlagWritten(operation'.opcode)
          IN  /\ status'[written[1]] = written[2]
              /\ \A flag \in DOMAIN status \ {written[1]} : status'[flag] = status[flag]
              /\ DOMAIN status' = DOMAIN status
              /\ a' = a /\ x' = x /\ y' = y
              /\ stack' = stack
              /\ memory' = memory]_vars

\* SEC has executed at 0xC000: carry, clear after construction, is set
C26_Witness ==
    /\ executed = 1 /\ fault.kind = "none"
    /\ operation.family = "Flag" /\ operation.opcode = 56
    /\ status = [ProcessorStatusNew EXCEPT !.carry = TRUE]

\* The families the run loop decodes that are no load, bit test, pull or
\* flag instruction
FlagKeeping == {"Store", "Branch", "Jmp", "Jsr", "Rts", "Nop"}

\* Push::execute, run on the current CPU for PHA and PHP, returns with the
\* encoded status byte as it was
PushKeepsStatus ==
    \A opcode \in {72, 8} :
        LET r == Execute(PushNew(opcode).op, Cpu, overflow_checks)
        IN  r.panic = "none" => StatusToU8(r.cpu.status) = StatusToU8(status)

\* C27: no instruction other than Load, BIT, Pull and the flag instructions
\* changes a flag: Store, Branch, JMP, JSR, RTS, NOP and Push leave the
\* encoded status byte unchanged.
C27_FlagsKept ==
    /\ [][(Executed /\ operation'.family \in FlagKeeping) =>
              StatusToU8(status') = StatusToU8(status)]_vars
    /\ []PushKeepsStatus

\* After LDX #$00 has set the zero flag, STX $00 has executed and the flag
\* is still set
C27_Witness ==
    /\ prg = OpeningImage /\ executed = 3 /\ fault.kind = "none"
    /\ operation.family = "Store" /\ operation.opcode = 134
    /\ status.zero /\ StatusToU8(status) = 38

---------------------------------------------------------------------------
(* Properties of the jump, call and return instructions.                   *)

\* The 16-bit little-endian address in the two bytes after the opcode at the
\* program counter
OperandAddress == Read(memory, program_counter + 1) + 256 * Read(memory, program_counter + 2)

\* The registers and flags are the same after the step
RegistersAndFlagsKept == a' = a /\ x' = x /\ y' = y /\ status' = status

\* C28: JMP absolute (0x4C) sets the program counter to the 16-bit
\* little-endian address formed from the two operand bytes (memory[PC + 1]
\* low, memory[PC + 2] high), adds 3 cycles and changes nothing else.
C28_JmpAbsolute ==
    [][(Executed /\ operation'.family = "Jmp" /\ operation'.opcode = 76) =>
          /\ program_counter' = OperandAddress
          /\ cycles' = cycles + 3
          /\ RegistersAndFlagsKept
          /\ stack' = stack
          /\ memory' = memory]_vars

\* JMP $C5F5 (4C F5 C5) has executed at 0xC000
C28_Witness ==
    /\ prg = OpeningImage /\ executed = 1 /\ fault.kind = "none"
    /\ operation.family = "Jmp" /\ operation.opcode = 76
    /\ program_counter = 50677 /\ cycles = 10

\* C29: JSR at address p pushes the return address p + 2, the high byte at
\* the higher stack address and the low byte below it, lowers the stack
\* pointer by 2, sets the program counter to the operand address and adds 6
\* cycles; registers and flags are unchanged.
C29_Jsr ==
    [][(Executed /\ operation'.family = "Jsr") =>
          LET return_address == Offset16(program_counter, 2)
              sp == stack.stack_pointer
          IN  /\ Read(memory', sp) = return_address \div 256
              /\ Read(memory', sp - 1) = return_address % 256
              /\ stack'.stack_pointer = sp - 2
              /\ program_counter' = OperandAddress
              /\ cycles' = cycles + 6
              /\ RegistersAndFlagsKept]_vars

\* JSR $C010 has executed at 0xC000: 0xC0 and 0x02 are on the stack
C29_Witness ==
    /\ prg = CallReturnImage /\ executed = 1 /\ fault.kind = "none"
    /\ operation.family = "Jsr"
    /\ program_counter = 49168 /\ cycles = 13
    /\ stack.stack_pointer = StackNew.stack_pointer - 2
    /\ Read(memory, StackNew.stack_pointer) = 192
    /\ Read(memory, StackNew.stack_pointer - 1) = 2

\* C30: RTS pops a 16-bit address from the stack, the low byte first and
\* then the high byte, raises the stack pointer by 2, sets the program
\* counter to the popped address + 1 and adds 6 cycles; registers, flags
\* and memory are unchanged.
C30_Rts ==
    [][(Executed /\ operation'.family = "Rts") =>
          LET sp == stack.stack_pointer
              low == Read(memory, sp + 1)
              high == Read(memory, sp + 2)
          IN  /\ stack'.stack_pointer = sp + 2
              /\ program_counter' = Offset16(low + 256 * high, 1)
              /\ cycles' = cycles + 6
              /\ RegistersAndFlagsKept
              /\ memory' = memory]_vars

\* JSR $C010 at 0xC000 and the RTS at 0xC010 have executed: the program
\* counter is 0xC003 and the stack pointer is back
C30_Witness ==
    /\ prg = CallReturnImage /\ executed = 2 /\ fault.kind = "none"
    /\ operation.family = "Rts"
    /\ program_counter = 49155 /\ cycles = 19
    /\ stack = StackNew

\* The CPU after the JSR at the program counter and then an RTS, with
\* nothing executed in between; the panic either of them ends in
JsrThenRts ==
    LET jsr == next(Cpu, overflow_checks).op
        called == Execute(jsr, Cpu, overflow_checks)
        returned == Execute(RtsNew(96).op, called.cpu, overflow_checks)
    IN  IF called.panic # "none" THEN called ELSE returned

\* next decodes a JSR at the program counter
JsrAtPc ==
    /\ fault.kind = "none"
    /\ next(Cpu, overflow_checks).matched
    /\ next(Cpu, overflow_checks).op.family = "Jsr"

\* C31: for every JSR at address p, executing the JSR and then an RTS, with
\* no change in between to the two pushed bytes or the stack pointer, leaves
\* the program counter at p + 3 and the stack pointer at its value before the
\* JSR, and the cycles increased by 12 in total.
C31_JsrRtsRoundTrip ==
    (JsrAtPc /\ JsrThenRts.panic = "none") =>
        /\ JsrThenRts.cpu.program_counter = Offset16(program_counter, 3)
        /\ JsrThenRts.cpu.stack = stack
        /\ JsrThenRts.cpu.cycles = cycles + 12

\* The run loop has executed JSR $C010 at 0xC000 and then the RTS at
\* 0xC010, whose trace line it has written
C31_Witness ==
    /\ prg = CallReturnImage /\ executed = 2 /\ fault.kind = "none"
    /\ log_enabled /\ trace.lines = 2 /\ trace.pc = 49168
    /\ program_counter = 49155
    /\ stack = StackNew
    /\ cycles = 19

---------------------------------------------------------------------------
(* Push::execute and Pull::execute (push_pull.rs) called directly: next    *)
(* never returns a Push or a Pull.                                         *)

\* The accumulators the calls start from: zero, a negative and a positive
\* byte, as a load leaves them
PulledAccumulators == {0, 128, 69}

\* The flags the calls start from: those of a new CPU, and those with every
\* flag but the B flag the other way
PulledStatuses ==
    {ProcessorStatusNew,
     [carry |-> TRUE, zero |-> TRUE, b_flag |-> FALSE, interrupt_disable |-> FALSE,
      overflow |-> TRUE, negative |-> TRUE, decimal |-> TRUE]}

\* A new CPU in either build, with an accumulator and flags as instructions
\* before the push or pull have left them
PushPullInit ==
    \E r \in {CpuNew(PrgRom(Image(1, <<>>)))}, oc \in BOOLEAN,
       value \in PulledAccumulators, flags \in PulledStatuses :
        /\ program_counter = r.cpu.program_counter
        /\ stack = r.cpu.stack
        /\ status = flags
        /\ a = value
        /\ x = r.cpu.x
        /\ y = r.cpu.y
        /\ memory = r.cpu.memory
        /\ cycles = r.cpu.cycles
        /\ prg = Image(1, <<>>)
        /\ operation = NoOperation
        /\ trace = NoTrace
        /\ fault = Fault(r.panic, 0, "new")
        /\ executed = 0
        /\ overflow_checks = oc
        /\ log_enabled = FALSE
        /\ call = NoCall

\* operation.execute(&mut cpu) for the operation `new` has returned in d
ExecuteOf(d) ==
    \E r \in {Execute(d.op, Cpu, overflow_checks)} :
        /\ d.matched
        /\ SetCpu(r.cpu)
        /\ operation' = d.op
        /\ fault' = Fault(r.panic, d.op.opcode, "execute")
        /\ executed' = IF r.panic = "none" THEN executed + 1 ELSE executed
        /\ UNCHANGED <<prg, trace, overflow_checks, log_enabled, call>>

Pha == CanCall(MaxCalls) /\ ExecuteOf(PushNew(72))
Php == CanCall(MaxCalls) /\ ExecuteOf(PushNew(8))
Pla == CanCall(MaxCalls) /\ ExecuteOf(PullNew(104))
Plp == CanCall(MaxCalls) /\ ExecuteOf(PullNew(40))

PushPullNext ==
    \/ Pha
    \/ Php
    \/ Pla
    \/ Plp

PushPullSpec == PushPullInit /\ [][PushPullNext]_vars

\* C32: PHA pushes the accumulator and PHP the encoded status byte, bit 5
\* set, onto the stack; the stack pointer decreases by 1, the program
\* counter advances by 1, and A, X, Y and all flags are unchanged.
C32_Push ==
    [][(Executed /\ operation'.family = "Push") =>
          LET sp == stack.stack_pointer
              pushed == Read(memory', sp)
          IN  /\ operation'.opcode = 72 => pushed = a
              /\ operation'.opcode = 8 =>
                    pushed = StatusToU8(status) /\ BitSet(pushed, 32)
              /\ stack'.stack_pointer = sp - 1
              /\ program_counter' = Offset16(program_counter, 1)
              /\ RegistersAndFlagsKept]_vars

\* PHP has pushed the byte of carry, zero, decimal, overflow and negative,
\* 0xEB, as the first instruction
C32_Witness ==
    /\ executed = 1 /\ fault.kind = "none"
    /\ operation.family = "Push" /\ operation.opcode = 8
    /\ status.carry /\ status.negative
    /\ Read(memory, StackNew.stack_pointer) = 235
    /\ stack.stack_pointer = StackNew.stack_pointer - 1
    /\ program_counter = 49153

\* The CPU after the push with opcode `pushing` and then the pull with
\* opcode `pulling`, executed on the current CPU
PushThenPull(pushing, pulling) ==
    LET pushed == Execute(PushNew(pushing).op, Cpu, overflow_checks)
    IN  Execute(PullNew(pulling).op, pushed.cpu, overflow_checks).cpu

\* C33: PLA pops a byte into the accumulator and sets zero and negative from
\* it, the other flags unchanged; PLP pops a byte and decodes it into the
\* flags (bits 0-4, 6 and 7; bit 5 is ignored); the stack pointer increases
\* by 1 and the program counter advances by 1.  So PHA followed by PLA
\* leaves A and the stack pointer unchanged, and PHP followed by PLP leaves
\* the status unchanged.
C33_Pull ==
    /\ [][(Executed /\ operation'.family = "Pull") =>
              LET sp == stack.stack_pointer
                  popped == Read(memory, sp + 1)
              IN  /\ stack'.stack_pointer = sp + 1
                  /\ program_counter' = Offset16(program_counter, 1)
                  /\ operation'.opcode = 104 =>
                        /\ a' = popped
                        /\ status' = [status EXCEPT !.zero = (popped = 0),
                                                     !.negative = (popped >= 128)]
                  /\ operation'.opcode = 40 =>
                        /\ a' = a
                        /\ status'.carry = BitSet(popped, 1)
                        /\ status'.zero = BitSet(popped, 2)
                        /\ status'.interrupt_disable = BitSet(popped, 4)
                        /\ status'.decimal = BitSet(popped, 8)
                        /\ status'.b_flag = BitSet(popped, 16)
                        /\ status'.overflow = BitSet(popped, 64)
                        /\ status'.negative = BitSet(popped, 128)]_vars
    /\ [](fault.kind = "none" =>
            /\ PushThenPull(72, 104).a = a
            /\ PushThenPull(72, 104).stack = stack
            /\ PushThenPull(8, 40).status = status
            /\ PushThenPull(8, 40).stack = stack)

\* PHA and then PLA have executed on a new CPU whose accumulator is 0x80: the
\* byte is on the stack and in A, the pointer is back, and negative is set
C33_Witness ==
    /\ executed = 2 /\ fault.kind = "none"
    /\ operation.family = "Pull" /\ operation.opcode = 104
    /\ Read(memory, StackNew.stack_pointer) = 128
    /\ a = 128
    /\ stack = StackNew
    /\ status = [ProcessorStatusNew EXCEPT !.negative = TRUE]

---------------------------------------------------------------------------
(* Properties of the bit test, of the cycle costs and of memory.           *)

\* C34: BIT (zero-page 0x24, absolute 0x2C), with result = the byte at the
\* effective address AND the accumulator, sets zero iff result = 0,
\* negative iff bit 7 of result is set and overflow iff bit 6 of result is
\* set; the accumulator, X, Y, carry, interrupt disable, decimal, the stack
\* pointer and memory are unchanged.
C34_Bit ==
    [][(Executed /\ operation'.family = "Bit") =>
          LET tested == Read(memory, EffectiveAddress(operation'.mode))
          IN  /\ status'.zero = (\A mask \in {1, 2, 4, 8, 16, 32, 64, 128} :
                                    ~(BitSet(tested, mask) /\ BitSet(a, mask)))
              /\ status'.negative = (BitSet(tested, 128) /\ BitSet(a, 128))
              /\ status'.overflow = (BitSet(tested, 64) /\ BitSet(a, 64))
              /\ status'.carry = status.carry
              /\ status'.interrupt_disable = status.interrupt_disable
              /\ status'.decimal = status.decimal
              /\ a' = a /\ x' = x /\ y' = y
              /\ stack' = stack
              /\ memory' = memory]_vars

\* BIT $10 has tested the byte 0xC0 against the accumulator 0xC0: negative
\* and overflow are set, zero is not
C34_Witness ==
    /\ prg = BitImage /\ executed = 3 /\ fault.kind = "none"
    /\ operation.family = "Bit" /\ operation.opcode = 36
    /\ a = 192 /\ Read(memory, 16) = 192
    /\ status.negative /\ status.overflow /\ ~status.zero

\* The opcodes with a fixed cost, and the cost the table gives each: flag
\* instructions 2, NOP 2, JMP absolute 3, JSR 6, RTS 6, PHA and PHP 3, PLA
\* and PLP 4, BIT 3 (zero-page) and 4 (absolute), stores 3 (zero-page), 4
\* (zero-page indexed, absolute) and 5 (absolute indexed)
FixedCostOpcodes ==
    {24, 56, 88, 120, 184, 216, 248, 234, 76, 32, 96, 72, 8, 104, 40, 36, 44,
     133, 134, 132, 149, 148, 150, 141, 142, 140, 157, 153}

TableCost(opcode) ==
    CASE opcode \in {24, 56, 88, 120, 184, 216, 248, 234} -> 2
      [] opcode \in {76, 72, 8, 36, 133, 134, 132} -> 3
      [] opcode \in {104, 40, 44, 149, 148, 150, 141, 142, 140} -> 4
      [] opcode \in {157, 153} -> 5
      [] opcode \in {32, 96} -> 6

\* Push::execute and Pull::execute, run on the current CPU, add 3 and 4
\* cycles when they return
PushPullCost ==
    \A opcode \in {72, 8, 104, 40} :
        LET d == IF opcode \in {72, 8} THEN PushNew(opcode) ELSE PullNew(opcode)
            r == Execute(d.op, Cpu, overflow_checks)
        IN  r.panic = "none" => r.cpu.cycles = cycles + TableCost(opcode)

\* C35: every successfully executed instruction with a fixed cost adds
\* exactly its table cost to the cycles (flag instructions 2, NOP 2, JMP
\* absolute 3, JSR 6, RTS 6, Push 3, Pull 4, BIT 3 or 4, Store 3, 4 or 5);
\* NOP changes nothing besides the program counter (+1) and the cycles (+2).
C35_FixedCosts ==
    /\ [][(Executed /\ operation'.opcode \in FixedCostOpcodes) =>
              cycles' = cycles + TableCost(operation'.opcode)]_vars
    /\ [][(Executed /\ operation'.family = "Nop") =>
              /\ program_counter' = Offset16(program_counter, 1)
              /\ cycles' = cycles + 2
              /\ RegistersAndFlagsKept
              /\ stack' = stack
              /\ memory' = memory]_vars
    /\ []PushPullCost

\* STA $0210,X, an absolute indexed store, has executed at 0xC000 and has
\* added 5 cycles to the 7 of construction
C35_Witness ==
    /\ executed = 1 /\ fault.kind = "none"
    /\ operation.family = "Store" /\ operation.opcode = 157
    /\ operation.mode = Mode("Absolute", "X", 528)
    /\ cycles = 12

---------------------------------------------------------------------------
(* Properties of the trace.                                                *)

\* The step executed an instruction to its end with the info level enabled
TracedStep == Executed /\ log_enabled

\* C36 as stated: within one step the order is fetch, decode, execute, then
\* trace: the operation decoded at the current PC is executed, mutating the
\* CPU, before its trace line is emitted, so that the line is written from
\* the CPU the instruction has left; and exactly one trace line is emitted
\* per executed instruction.
C36_ExecuteThenTrace ==
    /\ [][TracedStep =>
              /\ trace'.lines = trace.lines + 1
              /\ trace'.cyc = cycles'
              /\ trace'.a = a' /\ trace'.x = x' /\ trace'.y = y'
              /\ trace'.p = StatusToU8(status')]_vars
    /\ [](trace.lines = executed)

\* The lines emitted when the info level is enabled: one for every executed
\* instruction and one for the instruction whose execute has panicked
LinesEmitted == executed + (IF fault.stage = "execute" THEN 1 ELSE 0)

\* C36, amended: within one step the order is fetch, decode, trace, then
\* execute: with the info level enabled the trace line of the operation
\* decoded at the current PC is emitted from the CPU as it is before the
\* instruction, and then the operation is executed; exactly one line is
\* emitted per instruction whose execution has begun, and none with the
\* info level disabled.
C36_TraceThenExecute ==
    /\ [][TracedStep =>
              /\ trace'.lines = trace.lines + 1
              /\ trace'.pc = program_counter
              /\ trace'.cyc = cycles
              /\ trace'.a = a /\ trace'.x = x /\ trace'.y = y
              /\ trace'.p = StatusToU8(status)]_vars
    /\ [](trace.lines = IF log_enabled THEN LinesEmitted ELSE 0)

\* LDX #$00 has executed after JMP $C5F5: its line, the second, shows the
\* program counter, X and the cycles of before it
C36_Witness ==
    /\ prg = OpeningImage /\ executed = 2 /\ fault.kind = "none" /\ log_enabled
    /\ operation.family = "Load"
    /\ trace.lines = 2 /\ trace.pc = 50677 /\ trace.cyc = 10
    /\ program_counter = 50679 /\ cycles = 12

---------------------------------------------------------------------------
(* push_addr and pop_addr against push and pop.                            *)

\* The addresses push_addr is compared on in every state
ComposedAddresses == PushedAddresses \cup {0, 255, 256, 65535}

\* push(high byte of addr) followed by push(low byte of addr)
PushHighThenLow(c, addr, oc) ==
    LET high == push(c, addr_to_bytes(addr)[2], oc)
    IN  IF high.panic # "none" THEN high
        ELSE push(high.cpu, addr_to_bytes(addr)[1], oc)

\* Two successive calls of pop: the CPU after them and (first, second)
PopTwice(c) ==
    LET first == pop(c)
        second == pop(first.cpu)
    IN  IF first.panic # "none" THEN [first EXCEPT !.val = <<0, 0>>]
        ELSE IF second.panic # "none" THEN [second EXCEPT !.val = <<0, 0>>]
        ELSE [second EXCEPT !.val = <<first.val, second.val>>]

\* Two results leave the same memory and the same stack pointer
SameStackEffect(r1, r2) ==
    /\ r1.panic = "none" /\ r2.panic = "none"
    /\ r1.cpu.memory = r2.cpu.memory
    /\ r1.cpu.stack = r2.cpu.stack

\* C37: push_addr(a) has the same effect on memory and the stack pointer as
\* push(high byte of a) followed by push(low byte of a), and pop_addr
\* returns the same two bytes as two successive pop() calls (low, then
\* high); so for every 16-bit address a, pop_addr after push_addr(a)
\* recomposes a and restores the stack pointer.
C37_AddrAsTwoBytes ==
    /\ [][call'.name = "push_addr" =>
              /\ fault'.kind = "none"
              /\ SameStackEffect(Ok(Cpu'),
                                 PushHighThenLow(Cpu, call'.arg, overflow_checks))]_vars
    /\ [][call'.name = "pop_addr" =>
              /\ fault'.kind = "none"
              /\ SameStackEffect(Ok(Cpu'), PopTwice(Cpu))
              /\ call'.result = bytes_to_addr(PopTwice(Cpu).val[1],
                                              PopTwice(Cpu).val[2])]_vars
    /\ [](fault.kind = "none" =>
            /\ pop_addr(Cpu).val = PopTwice(Cpu).val
            /\ \A addr \in ComposedAddresses :
                  LET pushed == push_addr(Cpu, addr, overflow_checks)
                      popped == pop_addr(pushed.cpu)
                  IN  /\ SameStackEffect(pushed,
                                         PushHighThenLow(Cpu, addr, overflow_checks))
                      /\ popped.panic = "none"
                      /\ bytes_to_addr(popped.val[1], popped.val[2]) = addr
                      /\ popped.cpu.stack = stack)

\* pop_addr has returned 0x12FF, pushed by push_addr just before it on the
\* new CPU: 0x12 is at the top of the stack page and 0xFF below it
C37_Witness ==
    /\ call.name = "pop_addr" /\ call.result = 4863 /\ executed = 2
    /\ fault.kind = "none" /\ stack = StackNew
    /\ Read(memory, STACK_BASE + 253) = 18
    /\ Read(memory, STACK_BASE + 252) = 255

---------------------------------------------------------------------------
(* The absolute,Y opcodes.                                                 *)

\* LDA abs,Y, LDX abs,Y and STA abs,Y
AbsoluteYOpcodes == {185, 190, 153}

\* C38: for the Y-indexed absolute opcodes LDA 0xB9, LDX 0xBE and STA 0x99
\* the effective address is the operand address plus register Y (not X),
\* for all values of X and Y: the address the decoded mode resolves to is
\* that one, the load reads the byte there and the store writes it there.
C38_AbsoluteYUsesY ==
    [][(Executed /\ operation'.opcode \in AbsoluteYOpcodes) =>
          LET address == (OperandAddress + y) % 65536
          IN  /\ to_addr(operation'.mode, Cpu, overflow_checks).val = address
              /\ operation'.opcode = 185 => a' = Read(memory, address)
              /\ operation'.opcode = 190 => x' = Read(memory, address)
              /\ operation'.opcode = 153 => memory' = Write(memory, address, a)]_vars

---------------------------------------------------------------------------
(* Decoding at the top of the address space.                               *)

\* The opcodes of the one-byte instructions next decodes: the flag
\* instructions, RTS and NOP
OneByteOpcodes == {24, 56, 88, 120, 184, 216, 248, 96, 234}

\* C39: decode never reads outside the 64 KiB address space: for every PC
\* in 0 .. 0xFFFF, 0xFFFE and 0xFFFF included, no read of next is at an
\* index past 0xFFFF, and a one-byte instruction (NOP, RTS, flag set or
\* clear) located at 0xFFFE or 0xFFFF decodes successfully, without an
\* out-of-bounds operand fetch.
C39_DecodeInBounds ==
    /\ ~(fault.stage = "next" /\ fault.kind = "index_out_of_bounds")
    /\ (/\ fault.kind = "none"
        /\ program_counter \in {65534, 65535}
        /\ OpcodeAtPc \in OneByteOpcodes)
            => LET d == next(Cpu, overflow_checks)
               IN  d.matched /\ d.panic = "none"

---------------------------------------------------------------------------
(* The writers of memory.                                                  *)

\* The families of the run loop that write no byte of memory
ReadOnlyFamilies == {"Load", "Branch", "Flag", "Jmp", "Rts", "Nop", "Bit"}

\* `after` is `before` but for the byte at `address`
ChangedAtMostAt(before, after, address) ==
    after = Write(before, address, Read(after, address))

\* Push::execute and Pull::execute, run on the current CPU: Pull leaves
\* memory as it is and Push changes at most the byte the stack pointer is at
PushPullWrites ==
    \A opcode \in {72, 8, 104, 40} :
        LET d == IF opcode \in {72, 8} THEN PushNew(opcode) ELSE PullNew(opcode)
            r == Execute(d.op, Cpu, overflow_checks)
        IN  r.panic = "none" =>
                IF d.op.family = "Pull" THEN r.cpu.memory = memory
                ELSE ChangedAtMostAt(memory, r.cpu.memory, stack.stack_pointer)

\* C40: memory is written only by Store, JSR and Push: an executed Load,
\* Branch, Flag, JMP, RTS, NOP, BIT or Pull instruction leaves all 65536
\* bytes of memory unchanged, and Store, JSR and Push change at most 1, 2
\* and 1 bytes: the byte at the store's address, the two bytes at and below
\* the stack pointer, and the byte at the stack pointer.
C40_MemoryWriters ==
    /\ [][(Executed /\ operation'.family \in ReadOnlyFamilies) =>
              memory' = memory]_vars
    /\ [][(Executed /\ operation'.family = "Store") =>
              \E address \in {to_addr(operation'.mode, Cpu, overflow_checks).val} :
                  ChangedAtMostAt(memory, memory', address)]_vars
    /\ [][(Executed /\ operation'.family = "Jsr") =>
              \E sp \in {stack.stack_pointer} :
                  ChangedAtMostAt(Write(memory, sp, Read(memory', sp)),
                                  memory', sp - 1)]_vars
    /\ []PushPullWrites

\* JSR $C010 has executed at 0xC000: of memory only 0x10FD and 0x10FC, now
\* 0xC0 and 0x02, are not what they were
C40_Witness ==
    /\ prg = CallReturnImage /\ executed = 1 /\ fault.kind = "none"
    /\ operation.family = "Jsr"
    /\ Read(memory, STACK_BASE + 253) = 192
    /\ Read(memory, STACK_BASE + 252) = 2
    /\ Write(Write(memory, STACK_BASE + 253, 0), STACK_BASE + 252, 0)
          = CpuNew(PrgRom(prg)).cpu.memory

====
